---- MODULE Spec2Model ----
(***************************************************************************)
(* A model of flatFortiGatePolicy.js: the FortiGate configuration parser,  *)
(* the policy normalizer and flattener, the address lookup and the worker  *)
(* message handler.                                                        *)
(*                                                                         *)
(* A JavaScript string is modelled as a sequence of atoms.  An atom is     *)
(* either one of the punctuation characters the program looks at (double   *)
(* quote, space, comma, underscore, hyphen, slash, period, semicolon,      *)
(* colon, hash) or a word, a maximal run of other characters.  Every       *)
(* string operation of the program (trim, split, substring, startsWith,    *)
(* concatenation, comparison) is computed on these sequences, position by  *)
(* position, as the program computes it on characters.                     *)
(*                                                                         *)
(* A value that the program computes once and reads several times is the   *)
(* argument of a local operator here, LET f(v) == ... IN f(e), so that e   *)
(* occurs once in the expression.                                          *)
(***************************************************************************)
EXTENDS Integers, Sequences, FiniteSets, TLC

(***************************************************************************)
(* String primitives                                                       *)
(***************************************************************************)

\* The value of a property that was never assigned (JavaScript undefined).
Undefined == <<"\\undefined">>

\* String(undefined), the text an undefined value takes in a concatenation.
toStr(v) == IF v = Undefined THEN <<"undefined">> ELSE v

\* String.prototype.substring(a, b): indices are clamped and swapped if a > b.
substring(s, a, b) ==
    LET clamp(i) == IF i < 0 THEN 0 ELSE IF i > Len(s) THEN Len(s) ELSE i
        ordered(lo, hi) == IF lo < hi THEN SubSeq(s, lo + 1, hi) ELSE SubSeq(s, hi + 1, lo)
    IN  ordered(clamp(a), clamp(b))

\* String.prototype.substring(a).
substringFrom(s, a) == substring(s, a, Len(s))

startsWith(s, t) == Len(s) >= Len(t) /\ SubSeq(s, 1, Len(t)) = t

endsWith(s, t) == Len(s) >= Len(t) /\ SubSeq(s, Len(s) - Len(t) + 1, Len(s)) = t

\* String.prototype.trimString(str) of the program.
trimString(s, t) ==
    substring(s, IF startsWith(s, t) THEN Len(t) ELSE 0,
                 Len(s) - (IF endsWith(s, t) THEN Len(t) ELSE 0))

\* String.prototype.indexOf(t), 0-based, -1 when t does not occur.
indexOf(s, t) ==
    LET first(hits) == IF hits = {} THEN -1
                       ELSE (CHOOSE i \in hits : \A j \in hits : i <= j) - 1
    IN  first({i \in 1..(Len(s) - Len(t) + 1) : SubSeq(s, i, i + Len(t) - 1) = t})

\* String.prototype.split(sep) for a non-empty separator string.
RECURSIVE split(_, _)
split(s, sep) ==
    LET cut(i) == IF i = -1 THEN <<s>>
                  ELSE <<SubSeq(s, 1, i)>> \o split(SubSeq(s, i + Len(sep) + 1, Len(s)), sep)
    IN  cut(indexOf(s, sep))

\* Array.prototype.join(sep).
RECURSIVE join(_, _)
join(a, sep) ==
    IF Len(a) = 0 THEN <<>>
    ELSE IF Len(a) = 1 THEN a[1]
    ELSE a[1] \o sep \o join(Tail(a), sep)

\* String.prototype.trim(): white space removed at both ends.
RECURSIVE trimLeft(_)
trimLeft(s) == IF Len(s) > 0 /\ s[1] = " " THEN trimLeft(Tail(s)) ELSE s

RECURSIVE trimRight(_)
trimRight(s) ==
    IF Len(s) > 0 /\ s[Len(s)] = " " THEN trimRight(SubSeq(s, 1, Len(s) - 1)) ELSE s

trim(s) == trimRight(trimLeft(s))

\* String.prototype.split(/\s+/) of a trimmed, non-empty line: a run of white
\* space is one separator.
RECURSIVE splitWhiteSpace(_)
splitWhiteSpace(s) ==
    LET cut(i) == IF i = -1 THEN <<s>>
                  ELSE <<SubSeq(s, 1, i)>>
                       \o splitWhiteSpace(trimLeft(SubSeq(s, i + 1, Len(s))))
    IN  cut(indexOf(s, <<" ">>))

\* String.prototype.replaceAll(a, b) for one-character strings a and b.
replaceAll(s, a, b) == [i \in 1..Len(s) |-> IF s[i] = a THEN b ELSE s[i]]

\* Array.prototype.unique() of the program: first occurrences, in order.
RECURSIVE unique(_)
unique(a) ==
    LET add(front, v) == IF \E i \in 1..Len(front) : front[i] = v
                         THEN front ELSE Append(front, v)
    IN  IF Len(a) = 0 THEN <<>>
        ELSE add(unique(SubSeq(a, 1, Len(a) - 1)), a[Len(a)])

\* Array.prototype.last() of the program; Undefined for an empty array.
last(a) == IF Len(a) = 0 THEN Undefined ELSE a[Len(a)]

\* Number to decimal string, as in String(n) for a non-negative integer.
RECURSIVE digits(_)
digits(n) ==
    LET d == <<"0", "1", "2", "3", "4", "5", "6", "7", "8", "9">>
    IN  IF n < 10 THEN d[n + 1] ELSE digits(n \div 10) \o d[(n % 10) + 1]

numStr(n) == <<digits(n)>>

\* The largest number that occurs as a decimal word in the inputs of the model.
DecimalMax == 255

\* The decimal words of the model, by their numbers.
decimalWord == [n \in 0..DecimalMax |-> digits(n)]

(***************************************************************************)
(* Objects, the protocol type bits and the domain store                    *)
(***************************************************************************)

\* obj[key], Undefined when the property was never assigned.
getProp(obj, key) == IF key \in DOMAIN obj THEN obj[key] ELSE Undefined

\* obj[key] = value.
setProp(obj, key, value) ==
    [k \in (DOMAIN obj) \cup {key} |-> IF k = key THEN value ELSE obj[k]]

PROTOCOL_TYPE_BIT_NONE == 0

PROTOCOL_TYPE_BIT_IP == 1

PROTOCOL_TYPE_BIT_ICMP_ICMP6 == 2

PROTOCOL_TYPE_BIT_TCP_UDP_SCTP == 4

PROTOCOL_TYPE_BIT_UNSUPPORTED == 4096

\* (bits & bit) != 0 for a single bit.
hasBit(bits, bit) == (bits \div bit) % 2 = 1

\* a | b on the protocol type bits.
bitOr(a, b) ==
    LET on(bit) == IF hasBit(a, bit) \/ hasBit(b, bit) THEN bit ELSE 0
    IN  on(PROTOCOL_TYPE_BIT_IP) + on(PROTOCOL_TYPE_BIT_ICMP_ICMP6)
        + on(PROTOCOL_TYPE_BIT_TCP_UDP_SCTP) + on(PROTOCOL_TYPE_BIT_UNSUPPORTED)

\* g_Domain_Data is an object keyed by domain name; its property order is the
\* insertion order, so it is a sequence of domain records here.
hasDomain(dd, strDomainName) == \E i \in 1..Len(dd) : dd[i].name = strDomainName

\* domainData with the record of the first domain of the store for every name.
domainDataFirst(dd, strDomainName) == dd[1]

domainData(dd, strDomainName) ==
    dd[CHOOSE i \in 1..Len(dd) : dd[i].name = strDomainName]

initDomainData(dd, strDomainName) ==
    LET fresh == [name |-> strDomainName,
                  service_custom |-> <<>>, service_group |-> <<>>,
                  address4 |-> <<>>, addrgrp4 |-> <<>>,
                  address6 |-> <<>>, addrgrp6 |-> <<>>,
                  multicastaddress4 |-> <<>>, multicastaddress6 |-> <<>>,
                  policy4to4 |-> <<>>, policy6to6 |-> <<>>, policy6to4 |-> <<>>,
                  policy4to6 |-> <<>>, policy4to4m |-> <<>>, policy6to6m |-> <<>>]
    IN  IF hasDomain(dd, strDomainName)
        THEN [i \in 1..Len(dd) |-> IF dd[i].name = strDomainName THEN fresh ELSE dd[i]]
        ELSE Append(dd, fresh)

\* g_Domain_Data[strDomainName][strProperty] = value.
setDomainProperty(dd, strDomainName, strProperty, value) ==
    [i \in 1..Len(dd) |->
        IF dd[i].name = strDomainName THEN [dd[i] EXCEPT ![strProperty] = value] ELSE dd[i]]

t_PolicyPropertyName ==
    <<"policy4to4", "policy6to6", "policy6to4", "policy4to6", "policy4to4m", "policy6to6m">>

(***************************************************************************)
(* Policy normalizers                                                      *)
(***************************************************************************)

\* The member array of a `set` list: trimString('"').split('" "'), pushed
\* only when the parameter is not the empty string; memberArrayDistinct is
\* the array without the members named twice.
memberArrayDistinct(strMembers) ==
    IF strMembers # <<>>
    THEN unique(split(trimString(strMembers, <<"\"">>), <<"\"", " ", "\"">>))
    ELSE <<>>

memberArray(strMembers) ==
    IF strMembers # <<>>
    THEN split(trimString(strMembers, <<"\"">>), <<"\"", " ", "\"">>)
    ELSE <<>>

normalizeFirewallPolicy(dd, strDomainName, strPolicyType, strPolicyID, intOrderNumber, objParam) ==
    LET rows(strName, strSchedule, strComments, objFirewallServiceCustom,
             objFirewallServiceGroup, arraySrcIntf, arrayDstIntf, arraySrcAddr,
             arrayDstAddr, arrayService) ==
            LET nJ == Len(arrayDstIntf)
                nK == Len(arraySrcAddr)
                nL == Len(arrayDstAddr)
                nM == Len(arrayService)
                strStatus == IF objParam[<<"status">>] = <<>> THEN <<"enable">>
                             ELSE objParam[<<"status">>]
                strAction == IF objParam[<<"action">>] = <<>> THEN <<"deny">>
                             ELSE objParam[<<"action">>]
                columns(i, j, k, l, strService, strPort, strTypeCode) ==
                    join(<<strDomainName, arraySrcIntf[i + 1], arrayDstIntf[j + 1],
                           strPolicyType, strPolicyID, strName, numStr(intOrderNumber),
                           strAction, strService, arraySrcAddr[k + 1], strPort,
                           arrayDstAddr[l + 1], strPort,
                           IF strPort = <<"-", "/", "-">> THEN <<"-">> ELSE strPort,
                           strTypeCode,
                           toStr(objParam[<<"srcaddr", "_", "negate">>]),
                           toStr(objParam[<<"dstaddr", "_", "negate">>]),
                           toStr(objParam[<<"service", "_", "negate">>]),
                           strStatus, <<"-">>, strSchedule, strComments>>, <<",">>)
                service(i, j, k, l, strService, found, bits) ==
                    columns(i, j, k, l, strService,
                            IF ~found \/ hasBit(bits, PROTOCOL_TYPE_BIT_TCP_UDP_SCTP)
                                      \/ hasBit(bits, PROTOCOL_TYPE_BIT_UNSUPPORTED)
                            THEN strService ELSE <<"-", "/", "-">>,
                            IF ~found \/ hasBit(bits, PROTOCOL_TYPE_BIT_ICMP_ICMP6)
                                      \/ hasBit(bits, PROTOCOL_TYPE_BIT_UNSUPPORTED)
                            THEN strService ELSE <<"-", "/", "-">>)
                lookup(i, j, k, l, strService) ==
                    service(i, j, k, l, strService,
                            strService \in DOMAIN objFirewallServiceCustom
                            \/ strService \in DOMAIN objFirewallServiceGroup,
                            IF strService \in DOMAIN objFirewallServiceCustom
                            THEN objFirewallServiceCustom[strService].protocol_type
                            ELSE IF strService \in DOMAIN objFirewallServiceGroup
                            THEN objFirewallServiceGroup[strService].protocol_type
                            ELSE PROTOCOL_TYPE_BIT_NONE)
                \* The five nested loops, outermost first; index counts the rows.
                row(index) ==
                    lookup(index \div (nJ * nK * nL * nM),
                           (index \div (nK * nL * nM)) % nJ,
                           (index \div (nL * nM)) % nK,
                           (index \div nM) % nL,
                           arrayService[(index % nM) + 1])
            IN  [index \in 1..(Len(arraySrcIntf) * nJ * nK * nL * nM) |-> row(index - 1)]
    IN  rows(trimString(trimString(objParam[<<"name">>], <<"\"">>), <<"'">>),
             trimString(trimString(objParam[<<"schedule">>], <<"\"">>), <<"'">>),
             trimString(trimString(objParam[<<"comments">>], <<"\"">>), <<"'">>),
             domainData(dd, strDomainName).service_custom,
             domainData(dd, strDomainName).service_group,
             memberArray(objParam[<<"srcintf">>]), memberArray(objParam[<<"dstintf">>]),
             memberArray(objParam[<<"srcaddr">>]), memberArray(objParam[<<"dstaddr">>]),
             memberArray(objParam[<<"service">>]))

\* Number.isInteger(+str) for the strings of the model: the empty string (+'' is
\* 0) or one decimal word.
isIntegerString(str) ==
    str = <<>> \/ (Len(str) = 1 /\ \E n \in 0..DecimalMax : str[1] = decimalWord[n])

normalizeFirewallMulticastPolicy(strDomainName, strPolicyType, strPolicyID, intOrderNumber, objParam) ==
    LET rows(protocol, start_port, end_port, arraySrcIntf, arrayDstIntf, arraySrcAddr,
             arrayDstAddr) ==
            LET nJ == Len(arrayDstIntf)
                nK == Len(arraySrcAddr)
                nL == Len(arrayDstAddr)
                strStatus == IF objParam[<<"status">>] = <<>> THEN <<"enable">>
                             ELSE objParam[<<"status">>]
                strAction == IF objParam[<<"action">>] = <<>> THEN <<"accept">>
                             ELSE objParam[<<"action">>]
                columns(index, strProtocol, strSrcPort, strDstPort, strServiceDstAddr,
                        strTypeCode) ==
                    join(<<strDomainName, arraySrcIntf[(index \div (nJ * nK * nL)) + 1],
                           arrayDstIntf[((index \div (nK * nL)) % nJ) + 1], strPolicyType,
                           strPolicyID, <<"-">>, numStr(intOrderNumber), strAction,
                           strProtocol, arraySrcAddr[((index \div nL) % nK) + 1], strSrcPort,
                           arrayDstAddr[(index % nL) + 1], strDstPort,
                           strServiceDstAddr, strTypeCode, <<"-">>, <<"-">>, <<"-">>,
                           strStatus, <<"-">>, <<"-">>, <<"-">>>>, <<",">>)
                row(index, isIcmp, isTcpUdpSctp, isIp, isOther) ==
                    IF isIcmp
                    THEN columns(index, protocol, <<"-", "/", "-">>, <<"-", "/", "-">>,
                                 <<"-">>, <<"any", "/", "any">>)
                    ELSE IF isTcpUdpSctp
                    THEN columns(index, protocol, <<"eq", "/", "any">>,
                                 IF start_port = <<>> THEN <<"eq", "/", "any">>
                                 ELSE IF end_port = <<>> THEN <<"eq", "/">> \o toStr(start_port)
                                 ELSE <<"range", "/">> \o toStr(start_port) \o <<"-">>
                                      \o toStr(end_port),
                                 <<"0", "/", "0">>, <<"-", "/", "-">>)
                    ELSE IF isIp
                    THEN columns(index, <<"ip">>, <<"-", "/", "-">>, <<"-", "/", "-">>,
                                 <<"-">>, <<"-", "/", "-">>)
                    ELSE IF isOther
                    THEN columns(index, protocol, <<"-", "/", "-">>, <<"-", "/", "-">>,
                                 <<"-">>, <<"-", "/", "-">>)
                    ELSE columns(index, protocol, protocol, protocol, <<"-">>, protocol)
            IN  [index \in 1..(Len(arraySrcIntf) * nJ * nK * nL) |->
                    row(index - 1,
                        protocol = <<"1">> \/ protocol = <<"58">>,
                        protocol = <<"6">> \/ protocol = <<"17">> \/ protocol = <<"132">>,
                        protocol = <<>> \/ protocol = <<"0">> \/ protocol = <<"ip">>,
                        isIntegerString(protocol))]
    IN  rows(objParam[<<"protocol">>],
             getProp(objParam, <<"start", "_", "port">>),
             getProp(objParam, <<"end", "_", "port">>),
             memberArray(objParam[<<"srcintf">>]), memberArray(objParam[<<"dstintf">>]),
             memberArray(objParam[<<"srcaddr">>]), memberArray(objParam[<<"dstaddr">>]))

(***************************************************************************)
(* Address and service normalizers                                         *)
(***************************************************************************)

\* The value parsed as a decimal integer (parseInt), -1 standing for NaN.
parseInt(str) ==
    IF Len(str) > 0 /\ \E n \in 0..DecimalMax : str[1] = decimalWord[n]
    THEN CHOOSE n \in 0..DecimalMax : str[1] = decimalWord[n]
    ELSE -1

getPrefixLengthFromIPv4NetMask(strIPv4NetMask) ==
    LET \* The inner loop over the bits 7..0 of one octet.
        bitsOf[j \in -1..7, bytMask \in 0..255] ==
            IF j < 0 THEN 0
            ELSE IF bytMask >= 2 ^ j THEN 1 + bitsOf[j - 1, bytMask - 2 ^ j]
            ELSE IF bytMask = 0 THEN 0
            ELSE bitsOf[j - 1, bytMask]
        \* new Uint8Array([...]): NaN and a missing element are stored as 0.
        store(n) == IF n >= 0 THEN n % 256 ELSE 0
        count(arrayStrMaskOctet) ==
            LET octet(i) == IF i <= Len(arrayStrMaskOctet)
                            THEN store(parseInt(arrayStrMaskOctet[i])) ELSE 0
            IN  bitsOf[7, octet(1)] + bitsOf[7, octet(2)]
                + bitsOf[7, octet(3)] + bitsOf[7, octet(4)]
    IN  count(split(strIPv4NetMask, <<".">>))

getIPv4AddrWithPrefixLength(strIPv4Addr, strIPv4NetMask) ==
    strIPv4Addr \o <<"/">> \o numStr(getPrefixLengthFromIPv4NetMask(strIPv4NetMask))

normalizeFirewallIPv4Address(objParam) ==
    LET strParam1 == objParam[<<"param1">>]
        strParam2 == objParam[<<"param2">>]
        type == objParam[<<"type">>]
        value ==
            IF type = <<"ipmask">> /\ strParam1 # <<>> /\ strParam2 # <<>>
            THEN getIPv4AddrWithPrefixLength(strParam1, strParam2)
            ELSE IF type = <<"iprange">> /\ strParam1 # <<>> /\ strParam2 # <<>>
            THEN strParam1 \o <<"-">> \o strParam2
            ELSE IF type = <<"wildcard">> /\ strParam1 # <<>> /\ strParam2 # <<>>
            THEN strParam1 \o <<"/">> \o strParam2
            ELSE IF type \in {<<"fqdn">>, <<"wildcard", "-", "fqdn">>} /\ strParam1 # <<>>
            THEN <<"fqdn", ":">> \o strParam1
            ELSE IF type = <<"geography">> /\ strParam1 # <<>>
            THEN <<"geo", ":">> \o strParam1
            ELSE <<"undefined">>
    IN  [value |-> <<value>>, comment |-> objParam[<<"comment">>]]

getOperPortStyleConditionStringFromPortCondition(strPortCondition) ==
    LET range(array) ==
            <<"range", "/">> \o (IF array[1] = <<>> THEN <<"undefined">> ELSE array[1])
            \o <<"-">> \o (IF array[2] # <<>> THEN array[2] ELSE <<"undefined">>)
    IN  IF strPortCondition = Undefined \/ strPortCondition = <<>>
        THEN <<"eq", "/", "any">>
        ELSE IF indexOf(strPortCondition, <<"-">>) = -1
        THEN <<"eq", "/">> \o strPortCondition
        ELSE range(split(strPortCondition, <<"-">>))

getServicePortConditionArray(strProtocolNumber, strTcpUdpOrSctpPortRange, strIpRange, strFqdn) ==
    LET strServiceDstAddr ==
            IF strIpRange # <<>>
            THEN IF strIpRange = <<"0", ".", "0", ".", "0", ".", "0">> THEN <<"0", "/", "0">>
                 ELSE IF indexOf(strIpRange, <<"-">>) = -1 THEN strIpRange \o <<"/", "32">>
                 ELSE strIpRange
            ELSE IF strFqdn # <<>> THEN <<"fqdn", ":">> \o strFqdn
            ELSE <<"0", "/", "0">>
        condition(arrayPortCondition) ==
            strProtocolNumber \o <<"/">>
            \o getOperPortStyleConditionStringFromPortCondition(
                   IF Len(arrayPortCondition) >= 2 THEN arrayPortCondition[2] ELSE Undefined)
            \o <<"/">>
            \o getOperPortStyleConditionStringFromPortCondition(arrayPortCondition[1])
            \o <<";">> \o strServiceDstAddr
        conditions(arrayPortRange) ==
            [i \in 1..Len(arrayPortRange) |-> condition(split(arrayPortRange[i], <<":">>))]
    IN  conditions(unique(splitWhiteSpace(strTcpUdpOrSctpPortRange)))

getProtocolTypeBit(strProtocol) ==
    IF strProtocol \in {<<"1">>, <<"58">>} THEN PROTOCOL_TYPE_BIT_ICMP_ICMP6
    ELSE IF strProtocol \in {<<"6">>, <<"17">>, <<"132">>} THEN PROTOCOL_TYPE_BIT_TCP_UDP_SCTP
    ELSE IF strProtocol = <<"ip">> \/ isIntegerString(strProtocol) THEN PROTOCOL_TYPE_BIT_IP
    ELSE IF strProtocol = <<"undefined">> THEN PROTOCOL_TYPE_BIT_NONE
    ELSE PROTOCOL_TYPE_BIT_UNSUPPORTED

RECURSIVE getProtocolTypeBitsOfArray(_)
getProtocolTypeBitsOfArray(arrayServicePortCondition) ==
    IF Len(arrayServicePortCondition) = 0 THEN PROTOCOL_TYPE_BIT_NONE
    ELSE bitOr(getProtocolTypeBit(split(split(arrayServicePortCondition[1], <<";">>)[1], <<"/">>)[1]),
               getProtocolTypeBitsOfArray(Tail(arrayServicePortCondition)))

normalizeFirewallServiceCustom(objParam) ==
    LET protocol == objParam[<<"protocol">>]
        protocol_number == objParam[<<"protocol", "_", "number">>]
        icmp == (IF objParam[<<"icmptype">>] = <<>> THEN <<"any">> ELSE objParam[<<"icmptype">>])
                \o <<"/">>
                \o (IF objParam[<<"icmpcode">>] = <<>> THEN <<"any">> ELSE objParam[<<"icmpcode">>])
        ports(strProtocolNumber, strPortRange) ==
            IF strPortRange # <<>>
            THEN getServicePortConditionArray(strProtocolNumber, strPortRange,
                                              objParam[<<"iprange">>], objParam[<<"fqdn">>])
            ELSE <<>>
        objReturn(value) ==
            [value |-> value,
             protocol_type |-> getProtocolTypeBitsOfArray(value),
             comment |-> objParam[<<"comment">>]]
    IN  objReturn(unique(
            IF protocol = <<"IP">>
            THEN <<(IF isIntegerString(protocol_number) /\ protocol_number # <<"0">>
                       /\ protocol_number # <<>>
                    THEN protocol_number ELSE <<"ip">>) \o <<";", "-">>>>
            ELSE IF protocol = <<"ICMP">> THEN <<<<"1", "/">> \o icmp \o <<";", "-">>>>
            ELSE IF protocol = <<"ICMP6">> THEN <<<<"58", "/">> \o icmp \o <<";", "-">>>>
            ELSE IF protocol = <<"TCP", "/", "UDP", "/", "SCTP">>
            THEN ports(<<"6">>, objParam[<<"tcp", "_", "portrange">>])
                 \o ports(<<"17">>, objParam[<<"udp", "_", "portrange">>])
                 \o ports(<<"132">>, objParam[<<"sctp", "_", "portrange">>])
            ELSE IF protocol = <<>> THEN <<<<"undefined", ";", "-">>>>
            ELSE <<protocol \o <<";">> \o protocol>>))

flattenMember(objObjectOrGroupObject, strMembers) ==
    LET members(arrayMember) ==
            LET RECURSIVE values(_)
                values(i) ==
                    IF i > Len(arrayMember) THEN <<>>
                    ELSE (IF arrayMember[i] \in DOMAIN objObjectOrGroupObject
                          THEN objObjectOrGroupObject[arrayMember[i]].value ELSE <<>>)
                         \o values(i + 1)
            IN  unique(values(1))
    IN  members(split(trimString(strMembers, <<"\"">>), <<"\"", " ", "\"">>))

\* The properties every object literal inherits from Object.prototype, as far
\* as the names of the model go: objObjectOrGroupObject[name] is a function
\* for them, and its property `value` is undefined.
t_ObjectPrototypeName == {<<"constructor">>, <<"toString">>, <<"valueOf">>}

\* flattenMember raises a TypeError: push(...undefined) for a member that is
\* no entry of the table but a property the table inherits.
flattenMemberThrows(objObjectOrGroupObject, strMembers) ==
    \E i \in 1..Len(memberArray(strMembers)) :
        /\ memberArray(strMembers)[i] \notin DOMAIN objObjectOrGroupObject
        /\ memberArray(strMembers)[i] \in t_ObjectPrototypeName

normalizeFirewallAddressGroup(objParam, objFirewallAddress, objFirewallAddressGroup) ==
    [value |-> unique(flattenMember(objFirewallAddress, objParam[<<"member">>])
                      \o flattenMember(objFirewallAddressGroup, objParam[<<"member">>])),
     comment |-> objParam[<<"comment">>]]

normalizeFirewallServiceGroup(objParam, objFirewallServiceCustom, objFirewallServiceGroup) ==
    LET objReturn(arrayValue) ==
            [value |-> arrayValue,
             protocol_type |-> getProtocolTypeBitsOfArray(arrayValue),
             comment |-> objParam[<<"comment">>]]
    IN  objReturn(unique(flattenMember(objFirewallServiceCustom, objParam[<<"member">>])
                         \o flattenMember(objFirewallServiceGroup, objParam[<<"member">>])))

\* The hexadecimal words of the model and the four lower-case digits that
\* ('0' + (n >> 8).toString(16)).slice(-2) + ('0' + (n & 0xFF).toString(16)).slice(-2)
\* gives for each.
t_HextetFull ==
    [strHextet \in {"0", "1", "2", "0000", "0001", "0002", "2001", "db8", "0db8"} |->
        CASE strHextet \in {"0", "0000"} -> "0000"
          [] strHextet \in {"1", "0001"} -> "0001"
          [] strHextet \in {"2", "0002"} -> "0002"
          [] strHextet = "2001" -> "2001"
          [] strHextet \in {"db8", "0db8"} -> "0db8"]

\* The hextets of the model that are longer than four characters.
t_HextetLong == {"12345"}

\* What the callers of getHextetStrArray see when it returns undefined.
UndefinedArray == <<Undefined>>

\* getHextetStrArray for hextets that are empty, hexadecimal words or longer
\* than four characters: the first loop returns undefined at a hextet longer
\* than four characters and the empty array at an empty hextet (parseInt gives
\* NaN), whichever comes first.
getHextetStrArray(strHextetsIncludeColon) ==
    LET full(arrayStrHextet) ==
            LET stops == {i \in 1..Len(arrayStrHextet) :
                            \/ arrayStrHextet[i] = <<>>
                            \/ arrayStrHextet[i][1] \in t_HextetLong}
                first == CHOOSE i \in stops : \A j \in stops : i <= j
            IN  IF stops # {}
                THEN IF arrayStrHextet[first] = <<>> THEN <<>> ELSE UndefinedArray
                ELSE [i \in 1..Len(arrayStrHextet) |->
                        CASE Len(arrayStrHextet[i]) = 1
                             /\ arrayStrHextet[i][1] \in DOMAIN t_HextetFull ->
                                <<t_HextetFull[arrayStrHextet[i][1]]>>]
    IN  full(split(strHextetsIncludeColon, <<":">>))

\* getIPv6HextetStrArray for addresses without an embedded IPv4 address.
getIPv6HextetStrArray(strIPv6Addr) ==
    LET zeros(n) == [i \in 1..n |-> <<"0000">>]
        hextets(boolCompressed, arrayStrFrontHextet, arrayStrRearHextet) ==
            IF arrayStrRearHextet = UndefinedArray
            THEN <<>>
            ELSE IF (~boolCompressed /\ Len(arrayStrRearHextet) = 8)
               \/ (boolCompressed
                   /\ Len(arrayStrFrontHextet) + Len(arrayStrRearHextet) <= 7)
            THEN arrayStrFrontHextet
                 \o zeros(8 - Len(arrayStrFrontHextet) - Len(arrayStrRearHextet))
                 \o arrayStrRearHextet
            ELSE <<>>
        rear(boolCompressed, arrayStrFrontHextet, strRear) ==
            IF arrayStrFrontHextet = UndefinedArray
            THEN <<>>
            ELSE CASE indexOf(strRear, <<".">>) = -1 ->
                    hextets(boolCompressed, arrayStrFrontHextet, getHextetStrArray(strRear))
        front(intIndexOfDblColon) ==
            IF intIndexOfDblColon = -1
            THEN rear(FALSE, <<>>, strIPv6Addr)
            ELSE rear(TRUE, getHextetStrArray(substring(strIPv6Addr, 0, intIndexOfDblColon)),
                      substringFrom(strIPv6Addr, intIndexOfDblColon + 2))
    IN  front(indexOf(strIPv6Addr, <<":", ":">>))

getIPv6FullRepresentedAddr(strIPv6Addr) ==
    LET address(array) ==
            IF Len(array) > 0 /\ array[1] # <<>> THEN join(array, <<":">>) ELSE <<>>
    IN  address(getIPv6HextetStrArray(strIPv6Addr))

getIPv6FullRepresentedAddrWithPrefixLength(strIPv6AddrWithPrefixLength) ==
    LET withLength(arrayStrIPv6) ==
            LET length(strNormalizedIPv6Addr) ==
                    IF strNormalizedIPv6Addr = <<>> THEN <<>>
                    ELSE strNormalizedIPv6Addr \o <<"/">>
                         \o (IF Len(arrayStrIPv6) >= 2 THEN arrayStrIPv6[2]
                             ELSE <<"undefined">>)
            IN  length(getIPv6FullRepresentedAddr(arrayStrIPv6[1]))
    IN  withLength(split(strIPv6AddrWithPrefixLength, <<"/">>))

normalizeFirewallIPv6Address(objParam) ==
    LET strParam1 == objParam[<<"param1">>]
        strParam2 == objParam[<<"param2">>]
        type == objParam[<<"type">>]
        value ==
            IF type = <<"ipprefix">>
            THEN IF strParam1 = <<>> THEN <<"undefined">>
                 ELSE getIPv6FullRepresentedAddrWithPrefixLength(strParam1)
            ELSE IF type = <<"iprange">> /\ strParam1 # <<>> /\ strParam2 # <<>>
            THEN getIPv6FullRepresentedAddr(strParam1) \o <<"-">>
                 \o getIPv6FullRepresentedAddr(strParam2)
            ELSE IF type = <<"fqdn">> /\ strParam1 # <<>>
            THEN <<"fqdn", ":">> \o strParam1
            ELSE <<"undefined">>
    IN  [value |-> <<value>>, comment |-> objParam[<<"comment">>]]

(***************************************************************************)
(* The ConfigEdit objects                                                  *)
(***************************************************************************)

\* t_FortiGateFirewallObject: configuration name -> the object that handles it
\* (the two multicast-address configurations are left out of the model).
t_FortiGateFirewallObject ==
    [strConfigName \in {<<"address">>, <<"address6">>, <<"addrgrp">>, <<"addrgrp6">>,
                        <<"service", "_", "custom">>,
                        <<"service", "_", "group">>, <<"policy">>, <<"policy46">>,
                        <<"policy6">>, <<"policy64">>, <<"multicast", "-", "policy">>,
                        <<"multicast", "-", "policy6">>} |->
        CASE strConfigName = <<"address">> -> "editFirewallAddress4"
          [] strConfigName = <<"address6">> -> "editFirewallAddress6"
          [] strConfigName = <<"addrgrp">> -> "editFirewallAddrgrp4"
          [] strConfigName = <<"addrgrp6">> -> "editFirewallAddrgrp6"
          [] strConfigName = <<"service", "_", "custom">> -> "editFirewallServiceCustom"
          [] strConfigName = <<"service", "_", "group">> -> "editFirewallServiceGroup"
          [] strConfigName = <<"policy">> -> "editFirewallPolicy4to4"
          [] strConfigName = <<"policy46">> -> "editFirewallPolicy4to6"
          [] strConfigName = <<"policy6">> -> "editFirewallPolicy6to6"
          [] strConfigName = <<"policy64">> -> "editFirewallPolicy6to4"
          [] strConfigName = <<"multicast", "-", "policy">> -> "editFirewallMulticastPolicy4to4"
          [] strConfigName = <<"multicast", "-", "policy6">> -> "editFirewallMulticastPolicy6to6"]

\* The objects of class FirewallPolicy and of class FirewallMulticastPolicy,
\* with the policy type each one writes.
FirewallPolicy ==
    [editFirewallPolicy4to4 |-> "4to4", editFirewallPolicy6to6 |-> "6to6",
     editFirewallPolicy6to4 |-> "6to4", editFirewallPolicy4to6 |-> "4to6"]

FirewallMulticastPolicy ==
    [editFirewallMulticastPolicy4to4 |-> "4to4m", editFirewallMulticastPolicy6to6 |-> "6to6m"]

\* The objects of class FirewallAddrgrp.
FirewallAddrgrp == {"editFirewallAddrgrp4", "editFirewallAddrgrp6"}

\* The state of the objects after their constructors have run.
newConfigEdits ==
    [e \in {t_FortiGateFirewallObject[n] : n \in DOMAIN t_FortiGateFirewallObject} |->
        [strDomainName |-> <<>>, strEditName |-> <<>>, objParam |-> <<>>, intOrderNumber |-> 0]]

\* init(): only the policy classes override it.
init(e, this) ==
    IF e \in (DOMAIN FirewallPolicy) \cup (DOMAIN FirewallMulticastPolicy)
    THEN [this EXCEPT !.intOrderNumber = 0] ELSE this

\* The properties begin() assigns in each class (all to '', but the address type).
beginProperties(e) ==
    CASE e \in DOMAIN FirewallPolicy ->
            {<<"srcintf">>, <<"dstintf">>, <<"srcaddr">>, <<"dstaddr">>, <<"schedule">>,
             <<"service">>, <<"srcaddr", "_", "negate">>, <<"dstaddr", "_", "negate">>,
             <<"service", "_", "negate">>, <<"name">>, <<"action">>, <<"status">>,
             <<"comments">>}
      [] e \in DOMAIN FirewallMulticastPolicy ->
            {<<"srcintf">>, <<"dstintf">>, <<"srcaddr">>, <<"dstaddr">>, <<"protocol">>,
             <<"action">>, <<"status">>, <<"start", "-", "port">>, <<"end", "-", "port">>}
      [] e = "editFirewallServiceCustom" ->
            {<<"protocol">>, <<"protocol", "_", "number">>, <<"tcp", "_", "portrange">>,
             <<"udp", "_", "portrange">>, <<"sctp", "_", "portrange">>, <<"iprange">>,
             <<"fqdn">>, <<"icmptype">>, <<"icmpcode">>, <<"comment">>}
      [] e \in {"editFirewallServiceGroup"} \cup FirewallAddrgrp ->
            {<<"member">>, <<"comment">>}
      [] e \in {"editFirewallAddress4", "editFirewallAddress6"} ->
            {<<"type">>, <<"param1">>, <<"param2">>, <<"comment">>}

begin(e, this, strEditName) ==
    [this EXCEPT
        !.strEditName = strEditName,
        !.objParam = [k \in (DOMAIN @) \cup beginProperties(e) |->
                        IF k \notin beginProperties(e) THEN @[k]
                        ELSE IF e = "editFirewallAddress4" /\ k = <<"type">> THEN <<"ipmask">>
                        ELSE IF e = "editFirewallAddress6" /\ k = <<"type">> THEN <<"ipprefix">>
                        ELSE <<>>],
        !.intOrderNumber =
            IF e \in (DOMAIN FirewallPolicy) \cup (DOMAIN FirewallMulticastPolicy)
            THEN @ + 1 ELSE @]

\* The parameters set() accepts in each class.
setParameters(e) ==
    CASE e \in DOMAIN FirewallPolicy ->
            {<<"srcintf">>, <<"dstintf">>, <<"srcaddr">>, <<"dstaddr">>, <<"schedule">>,
             <<"service">>, <<"srcaddr", "-", "negate">>, <<"dstaddr", "-", "negate">>,
             <<"service", "-", "negate">>, <<"name">>, <<"action">>, <<"status">>,
             <<"comments">>}
      [] e \in DOMAIN FirewallMulticastPolicy ->
            {<<"srcintf">>, <<"dstintf">>, <<"srcaddr">>, <<"dstaddr">>, <<"protocol">>,
             <<"action">>, <<"status">>, <<"start", "-", "port">>, <<"end", "-", "port">>}
      [] e = "editFirewallServiceCustom" ->
            {<<"protocol">>, <<"protocol", "-", "number">>, <<"tcp", "-", "portrange">>,
             <<"udp", "-", "portrange">>, <<"sctp", "-", "portrange">>, <<"iprange">>,
             <<"fqdn">>, <<"icmptype">>, <<"icmpcode">>, <<"comment">>}
      [] e \in {"editFirewallServiceGroup"} \cup FirewallAddrgrp ->
            {<<"member">>, <<"comment">>}
      [] e = "editFirewallAddress4" ->
            {<<"type">>, <<"subnet">>, <<"wildcard">>, <<"start", "-", "ip">>, <<"fqdn">>,
             <<"wildcard", "-", "fqdn">>, <<"country">>, <<"end", "-", "ip">>, <<"comment">>}
      [] e = "editFirewallAddress6" ->
            {<<"type">>, <<"ip6">>, <<"start", "-", "ip">>, <<"fqdn">>, <<"end", "-", "ip">>,
             <<"comment">>}

\* set(strLine, arrayToken); arrayToken[1] of the model is arrayToken[0] of the code.
set(e, this, strLine, arrayToken) ==
    LET second(strDefault) == IF Len(arrayToken) >= 4 THEN arrayToken[4] ELSE strDefault
        assign(objParam, strParam, rest, unquoted) ==
            IF e \in (DOMAIN FirewallPolicy) \cup (DOMAIN FirewallMulticastPolicy)
            THEN setProp(objParam, replaceAll(strParam, "-", "_"), rest)
            ELSE IF e = "editFirewallServiceCustom"
            THEN setProp(objParam, replaceAll(strParam, "-", "_"), unquoted)
            ELSE IF e \in {"editFirewallServiceGroup"} \cup FirewallAddrgrp
            THEN setProp(objParam, strParam, unquoted)
            ELSE IF strParam = <<"type">> THEN setProp(objParam, <<"type">>, arrayToken[3])
            ELSE IF strParam = <<"subnet">>
            THEN setProp(setProp(objParam, <<"param1">>, arrayToken[3]), <<"param2">>,
                         second(<<"255", ".", "255", ".", "255", ".", "255">>))
            ELSE IF strParam = <<"wildcard">>
            THEN setProp(setProp(objParam, <<"param1">>, arrayToken[3]), <<"param2">>,
                         second(<<"0", ".", "0", ".", "0", ".", "0">>))
            ELSE IF strParam = <<"end", "-", "ip">> THEN setProp(objParam, <<"param2">>, unquoted)
            ELSE IF strParam = <<"comment">> THEN setProp(objParam, <<"comment">>, unquoted)
            ELSE setProp(objParam, <<"param1">>, unquoted)
        value(rest) ==
            assign(this.objParam, arrayToken[2], rest,
                   trimString(trimString(rest, <<"\"">>), <<"'">>))
    IN  IF Len(arrayToken) < 3 \/ arrayToken[2] \notin setParameters(e) THEN this
        ELSE [this EXCEPT !.objParam =
                value(substringFrom(strLine, Len(arrayToken[1]) + Len(arrayToken[2]) + 2))]

\* The property of the domain data that end() writes in each class.
endProperty(e) ==
    CASE e \in DOMAIN FirewallPolicy -> "policy" \o FirewallPolicy[e]
      [] e \in DOMAIN FirewallMulticastPolicy -> "policy" \o FirewallMulticastPolicy[e]
      [] e = "editFirewallServiceCustom" -> "service_custom"
      [] e = "editFirewallServiceGroup" -> "service_group"
      [] e = "editFirewallAddress4" -> "address4"
      [] e = "editFirewallAddress6" -> "address6"
      [] e = "editFirewallAddrgrp4" -> "addrgrp4"
      [] e = "editFirewallAddrgrp6" -> "addrgrp6"

\* The changes end() makes to this.objParam before it normalizes.
endParameters(e, objParam) ==
    LET negate(k) == IF getProp(objParam, k) = <<"enable">> THEN <<"true">> ELSE <<"false">>
        negates == {<<"srcaddr", "_", "negate">>, <<"dstaddr", "_", "negate">>,
                    <<"service", "_", "negate">>}
    IN  CASE e \in {"editFirewallPolicy4to4", "editFirewallPolicy6to6"} ->
                [k \in DOMAIN objParam \cup negates |->
                    IF k \in negates THEN negate(k) ELSE objParam[k]]
          [] e \in {"editFirewallPolicy6to4", "editFirewallPolicy4to6"} ->
                [k \in DOMAIN objParam \cup {<<"name">>} \cup negates |->
                    IF k \in {<<"name">>} \cup negates THEN <<"-">> ELSE objParam[k]]
          [] e = "editFirewallServiceCustom" ->
                IF getProp(objParam, <<"protocol">>) = <<>>
                THEN setProp(objParam, <<"protocol">>, <<"TCP", "/", "UDP", "/", "SCTP">>)
                ELSE objParam
          [] e = "editFirewallAddress4" ->
                IF getProp(objParam, <<"type">>) \in {<<"ipmask">>, <<"iprange">>, <<"wildcard">>}
                THEN [k \in DOMAIN objParam |->
                        IF k \in {<<"param1">>, <<"param2">>} /\ objParam[k] = <<>>
                        THEN <<"0", ".", "0", ".", "0", ".", "0">> ELSE objParam[k]]
                ELSE objParam
          [] e = "editFirewallAddress6" ->
                IF getProp(objParam, <<"type">>) = <<"iprange">>
                THEN [k \in DOMAIN objParam |->
                        IF k \in {<<"param1">>, <<"param2">>} /\ objParam[k] = <<>>
                        THEN <<":", ":">> ELSE objParam[k]]
                ELSE IF getProp(objParam, <<"type">>) = <<"ipprefix">>
                THEN [k \in DOMAIN objParam |->
                        IF k = <<"param1">> /\ objParam[k] = <<>>
                        THEN <<":", ":", "/", "0">> ELSE objParam[k]]
                ELSE objParam
          [] OTHER -> objParam

\* end(): the outcome is the object, the store, and whether a TypeError was
\* raised (g_Domain_Data[this.strDomainName] undefined, or flattenMember of a
\* group).
end(e, this, dd) ==
    LET value(dom, objParam) ==
            CASE e \in DOMAIN FirewallPolicy ->
                    dom[endProperty(e)] \o normalizeFirewallPolicy(dd, this.strDomainName,
                        <<FirewallPolicy[e]>>, this.strEditName, this.intOrderNumber, objParam)
              [] e \in DOMAIN FirewallMulticastPolicy ->
                    dom[endProperty(e)] \o normalizeFirewallMulticastPolicy(this.strDomainName,
                        <<FirewallMulticastPolicy[e]>>, this.strEditName, this.intOrderNumber,
                        objParam)
              [] e = "editFirewallServiceCustom" ->
                    setProp(dom.service_custom, this.strEditName,
                            normalizeFirewallServiceCustom(objParam))
              [] e = "editFirewallServiceGroup" ->
                    setProp(dom.service_group, this.strEditName,
                            normalizeFirewallServiceGroup(objParam, dom.service_custom,
                                                          dom.service_group))
              [] e = "editFirewallAddress4" ->
                    setProp(dom.address4, this.strEditName, normalizeFirewallIPv4Address(objParam))
              [] e = "editFirewallAddress6" ->
                    setProp(dom.address6, this.strEditName, normalizeFirewallIPv6Address(objParam))
              [] e = "editFirewallAddrgrp4" ->
                    setProp(dom.addrgrp4, this.strEditName,
                            normalizeFirewallAddressGroup(objParam, dom.address4, dom.addrgrp4))
              [] e = "editFirewallAddrgrp6" ->
                    setProp(dom.addrgrp6, this.strEditName,
                            normalizeFirewallAddressGroup(objParam, dom.address6, dom.addrgrp6))
        save(objParam) ==
            [this |-> [this EXCEPT !.objParam = objParam],
             g_Domain_Data |->
                setDomainProperty(dd, this.strDomainName, endProperty(e),
                                  value(domainData(dd, this.strDomainName), objParam)),
             thrown |-> FALSE]
        objects(dom) ==
            CASE e = "editFirewallServiceGroup" -> dom.service_custom
              [] e = "editFirewallAddrgrp4" -> dom.address4
              [] e = "editFirewallAddrgrp6" -> dom.address6
              [] OTHER -> <<>>
    IN  IF ~hasDomain(dd, this.strDomainName)
        THEN [this |-> this, g_Domain_Data |-> dd, thrown |-> TRUE]
        ELSE IF /\ e \in FirewallAddrgrp \cup {"editFirewallServiceGroup"}
                /\ \/ flattenMemberThrows(objects(domainData(dd, this.strDomainName)),
                                          this.objParam[<<"member">>])
                   \/ flattenMemberThrows(domainData(dd, this.strDomainName)[endProperty(e)],
                                          this.objParam[<<"member">>])
        THEN [this |-> this, g_Domain_Data |-> dd, thrown |-> TRUE]
        ELSE save(endParameters(e, this.objParam))

(***************************************************************************)
(* The parser.  A parse is the record of parseFortiGateConfig's locals and *)
(* of the globals it changes; parseLine is one iteration of its loop.      *)
(***************************************************************************)

\* strLine.substring(5) drops 'edit ': the word edit and one white space.
EDIT_NAME_INDEX == 2

\* The configuration name of a 'config firewall ...' token array, Undefined if
\* the array is not of that form.
configName(array) ==
    IF Len(array) >= 3 /\ array[2] = <<"firewall">>
    THEN IF Len(array) >= 4 THEN array[3] \o <<"_">> \o array[4] ELSE array[3]
    ELSE Undefined

\* parseLine with initDomainData called at every `edit` of `config vdom`.
parseLineInitDomain(p, strRawLine) ==
    LET throw == [p EXCEPT !.thrown = TRUE]
        popped == [p EXCEPT !.stack_config = SubSeq(@, 1, Len(@) - 1)]
        ended(r) ==
            [p EXCEPT !.configEdits[p.configEdit] = r.this,
                      !.g_Domain_Data = r.g_Domain_Data,
                      !.thrown = r.thrown,
                      !.strEditName = IF r.thrown THEN @ ELSE <<>>]
        domain(strName) ==
            [p EXCEPT !.strDomainName = strName,
                      !.g_Domain_Data = initDomainData(@, strName)]
        edit(e, strName) ==
            [p EXCEPT !.g_Domain_Data = IF hasDomain(@, p.strDomainName) THEN @
                                        ELSE initDomainData(@, <<>>),
                      !.strEditName = strName,
                      !.configEdit = e,
                      !.configEdits[e] =
                            begin(e, [@ EXCEPT !.strDomainName = p.strDomainName], strName)]
        command(strLine, arrayToken, top, strConfigName) ==
            IF strLine = <<"end">>
            THEN IF top = Undefined THEN throw
                 ELSE IF Len(top) >= 2 /\ top[2] = <<"vdom">>
                 THEN [popped EXCEPT !.strDomainName = <<>>]
                 ELSE IF strConfigName \in DOMAIN t_FortiGateFirewallObject
                 THEN IF p.configEdit = "undefined" THEN throw
                      ELSE [popped EXCEPT !.strEditName = <<>>,
                                          !.configEdits[p.configEdit] = init(p.configEdit, @)]
                 ELSE popped
            ELSE IF strLine = <<"next">>
            THEN IF p.strEditName # <<>>
                 THEN ended(end(p.configEdit, p.configEdits[p.configEdit], p.g_Domain_Data))
                 ELSE p
            ELSE IF arrayToken[1] = <<"config">>
            THEN [p EXCEPT !.stack_config = Append(@, arrayToken)]
            ELSE IF Len(arrayToken) >= 2 /\ arrayToken[1] = <<"edit">>
            THEN IF top = Undefined THEN throw
                 ELSE IF Len(top) >= 2 /\ top[2] = <<"vdom">>
                 THEN domain(trimString(substringFrom(strLine, EDIT_NAME_INDEX), <<"\"">>))
                 ELSE IF strConfigName \in DOMAIN t_FortiGateFirewallObject
                 THEN edit(t_FortiGateFirewallObject[strConfigName],
                           trimString(substringFrom(strLine, EDIT_NAME_INDEX), <<"\"">>))
                 ELSE p
            ELSE IF p.strEditName # <<>> /\ arrayToken[1] = <<"set">>
            THEN [p EXCEPT !.configEdits[p.configEdit] =
                                set(p.configEdit, @, strLine, arrayToken)]
            ELSE p
        tokens(strLine, top) ==
            IF p.thrown \/ Len(strLine) = 0 \/ startsWith(strLine, <<"#">>) THEN p
            ELSE command(strLine, splitWhiteSpace(strLine), top, configName(top))
    IN  tokens(trim(strRawLine), last(p.stack_config))

\* parseLine without the reset of strDomainName at the `end` of `config vdom`.
parseLineKeepVdom(p, strRawLine) ==
    LET throw == [p EXCEPT !.thrown = TRUE]
        popped == [p EXCEPT !.stack_config = SubSeq(@, 1, Len(@) - 1)]
        ended(r) ==
            [p EXCEPT !.configEdits[p.configEdit] = r.this,
                      !.g_Domain_Data = r.g_Domain_Data,
                      !.thrown = r.thrown,
                      !.strEditName = IF r.thrown THEN @ ELSE <<>>]
        domain(strName) ==
            [p EXCEPT !.strDomainName = strName,
                      !.g_Domain_Data = IF hasDomain(@, strName) THEN @
                                        ELSE initDomainData(@, strName)]
        edit(e, strName) ==
            [p EXCEPT !.g_Domain_Data = IF hasDomain(@, p.strDomainName) THEN @
                                        ELSE initDomainData(@, <<>>),
                      !.strEditName = strName,
                      !.configEdit = e,
                      !.configEdits[e] =
                            begin(e, [@ EXCEPT !.strDomainName = p.strDomainName], strName)]
        command(strLine, arrayToken, top, strConfigName) ==
            IF strLine = <<"end">>
            THEN IF top = Undefined THEN throw
                 ELSE IF Len(top) >= 2 /\ top[2] = <<"vdom">>
                 THEN popped
                 ELSE IF strConfigName \in DOMAIN t_FortiGateFirewallObject
                 THEN IF p.configEdit = "undefined" THEN throw
                      ELSE [popped EXCEPT !.strEditName = <<>>,
                                          !.configEdits[p.configEdit] = init(p.configEdit, @)]
                 ELSE popped
            ELSE IF strLine = <<"next">>
            THEN IF p.strEditName # <<>>
                 THEN ended(end(p.configEdit, p.configEdits[p.configEdit], p.g_Domain_Data))
                 ELSE p
            ELSE IF arrayToken[1] = <<"config">>
            THEN [p EXCEPT !.stack_config = Append(@, arrayToken)]
            ELSE IF Len(arrayToken) >= 2 /\ arrayToken[1] = <<"edit">>
            THEN IF top = Undefined THEN throw
                 ELSE IF Len(top) >= 2 /\ top[2] = <<"vdom">>
                 THEN domain(trimString(substringFrom(strLine, EDIT_NAME_INDEX), <<"\"">>))
                 ELSE IF strConfigName \in DOMAIN t_FortiGateFirewallObject
                 THEN edit(t_FortiGateFirewallObject[strConfigName],
                           trimString(substringFrom(strLine, EDIT_NAME_INDEX), <<"\"">>))
                 ELSE p
            ELSE IF p.strEditName # <<>> /\ arrayToken[1] = <<"set">>
            THEN [p EXCEPT !.configEdits[p.configEdit] =
                                set(p.configEdit, @, strLine, arrayToken)]
            ELSE p
        tokens(strLine, top) ==
            IF p.thrown \/ Len(strLine) = 0 \/ startsWith(strLine, <<"#">>) THEN p
            ELSE command(strLine, splitWhiteSpace(strLine), top, configName(top))
    IN  tokens(trim(strRawLine), last(p.stack_config))

parseLine(p, strRawLine) ==
    LET throw == [p EXCEPT !.thrown = TRUE]
        popped == [p EXCEPT !.stack_config = SubSeq(@, 1, Len(@) - 1)]
        ended(r) ==
            [p EXCEPT !.configEdits[p.configEdit] = r.this,
                      !.g_Domain_Data = r.g_Domain_Data,
                      !.thrown = r.thrown,
                      !.strEditName = IF r.thrown THEN @ ELSE <<>>]
        domain(strName) ==
            [p EXCEPT !.strDomainName = strName,
                      !.g_Domain_Data = IF hasDomain(@, strName) THEN @
                                        ELSE initDomainData(@, strName)]
        edit(e, strName) ==
            [p EXCEPT !.g_Domain_Data = IF hasDomain(@, p.strDomainName) THEN @
                                        ELSE initDomainData(@, <<>>),
                      !.strEditName = strName,
                      !.configEdit = e,
                      !.configEdits[e] =
                            begin(e, [@ EXCEPT !.strDomainName = p.strDomainName], strName)]
        command(strLine, arrayToken, top, strConfigName) ==
            IF strLine = <<"end">>
            THEN IF top = Undefined THEN throw
                 ELSE IF Len(top) >= 2 /\ top[2] = <<"vdom">>
                 THEN [popped EXCEPT !.strDomainName = <<>>]
                 ELSE IF strConfigName \in DOMAIN t_FortiGateFirewallObject
                 THEN IF p.configEdit = "undefined" THEN throw
                      ELSE [popped EXCEPT !.strEditName = <<>>,
                                          !.configEdits[p.configEdit] = init(p.configEdit, @)]
                 ELSE popped
            ELSE IF strLine = <<"next">>
            THEN IF p.strEditName # <<>>
                 THEN ended(end(p.configEdit, p.configEdits[p.configEdit], p.g_Domain_Data))
                 ELSE p
            ELSE IF arrayToken[1] = <<"config">>
            THEN [p EXCEPT !.stack_config = Append(@, arrayToken)]
            ELSE IF Len(arrayToken) >= 2 /\ arrayToken[1] = <<"edit">>
            THEN IF top = Undefined THEN throw
                 ELSE IF Len(top) >= 2 /\ top[2] = <<"vdom">>
                 THEN domain(trimString(substringFrom(strLine, EDIT_NAME_INDEX), <<"\"">>))
                 ELSE IF strConfigName \in DOMAIN t_FortiGateFirewallObject
                 THEN edit(t_FortiGateFirewallObject[strConfigName],
                           trimString(substringFrom(strLine, EDIT_NAME_INDEX), <<"\"">>))
                 ELSE p
            ELSE IF p.strEditName # <<>> /\ arrayToken[1] = <<"set">>
            THEN [p EXCEPT !.configEdits[p.configEdit] =
                                set(p.configEdit, @, strLine, arrayToken)]
            ELSE p
        tokens(strLine, top) ==
            IF p.thrown \/ Len(strLine) = 0 \/ startsWith(strLine, <<"#">>) THEN p
            ELSE command(strLine, splitWhiteSpace(strLine), top, configName(top))
    IN  tokens(trim(strRawLine), last(p.stack_config))

\* The locals of parseFortiGateConfig at its entry, with the globals as they are.
newParse(dd, edits) ==
    [g_Domain_Data |-> dd, configEdits |-> edits, stack_config |-> <<>>,
     strDomainName |-> <<>>, strEditName |-> <<>>, configEdit |-> "undefined",
     thrown |-> FALSE]

(***************************************************************************)
(* The flattener                                                           *)
(***************************************************************************)

NMCOL_DOM_NAME == 0

NMCOL_SRC_INTF == 1

NMCOL_DST_INTF == 2

NMCOL_POL_TYPE == 3

NMCOL_POL_ID == 4

NMCOL_POL_NAME == 5

NMCOL_POL_LINE == 6

NMCOL_ACTION == 7

NMCOL_PROTOCOL == 8

NMCOL_SRC_ADDR == 9

NMCOL_SRC_PORT == 10

NMCOL_DST_ADDR == 11

NMCOL_DST_PORT == 12

NMCOL_SERVICE_DSTADDR == 13

NMCOL_ICMPTYCD == 14

NMCOL_SRCADDR_NEGATE == 15

NMCOL_DSTADDR_NEGATE == 16

NMCOL_SERVICE_NEGATE == 17

NMCOL_STATUS == 18

NMCOL_LOG == 19

NMCOL_SCHEDULE == 20

NMCOL_COMMENT == 21

\* array[index] with the indices of the code (from 0); Undefined past the end.
at(array, index) == IF index + 1 <= Len(array) THEN array[index + 1] ELSE Undefined

\* The row the two flatten functions rebuild: the 22 columns of arrayToken,
\* those of `replaced` taken from it instead.
flatString(arrayToken, replaced) ==
    join([n \in 1..22 |-> toStr(IF n - 1 \in DOMAIN replaced THEN replaced[n - 1]
                                ELSE at(arrayToken, n - 1))], <<",">>)

\* The rows of the store always name a domain of the store in their first column.
getAddressArray(dd, arrayToken, index) ==
    LET array(strName, objDomain, strPolicyType) ==
            LET is(strType) == strPolicyType = <<strType>>
                isSrcAddr == index = NMCOL_SRC_ADDR
                isDstAddr == index = NMCOL_DST_ADDR
                values(objObject, objGroup) ==
                    IF strName \in DOMAIN objObject THEN flattenMember(objObject, strName)
                    ELSE IF strName \in DOMAIN objGroup THEN flattenMember(objGroup, strName)
                    ELSE <<strName>>
            IN  (IF ((is("4to4") \/ is("4to6") \/ is("4to4m")) /\ isSrcAddr)
                    \/ ((is("4to4") \/ is("6to4")) /\ isDstAddr)
                 THEN values(objDomain.address4, objDomain.addrgrp4) ELSE <<>>)
             \o (IF ((is("6to6") \/ is("6to4") \/ is("6to6m")) /\ isSrcAddr)
                    \/ ((is("6to6") \/ is("4to6")) /\ isDstAddr)
                 THEN values(objDomain.address6, objDomain.addrgrp6) ELSE <<>>)
             \o (IF is("4to4m") /\ isDstAddr
                 THEN values(objDomain.multicastaddress4, <<>>) ELSE <<>>)
             \o (IF is("6to6m") /\ isDstAddr
                 THEN values(objDomain.multicastaddress6, <<>>) ELSE <<>>)
    IN  IF at(arrayToken, index) = Undefined \/ at(arrayToken, index) = <<>> THEN <<>>
        ELSE array(at(arrayToken, index), domainData(dd, at(arrayToken, NMCOL_DOM_NAME)),
                   at(arrayToken, NMCOL_POL_TYPE))

getServiceArray(dd, arrayToken) ==
    LET strServiceDstAddr == toStr(at(arrayToken, NMCOL_SERVICE_DSTADDR))
        array(strProtocol, objDomain) ==
            IF strProtocol \in DOMAIN objDomain.service_custom
            THEN flattenMember(objDomain.service_custom, strProtocol)
            ELSE IF strProtocol \in DOMAIN objDomain.service_group
            THEN flattenMember(objDomain.service_group, strProtocol)
            ELSE IF strProtocol \in {<<"1">>, <<"58">>}
            THEN <<strProtocol \o <<"/">> \o toStr(at(arrayToken, NMCOL_ICMPTYCD))
                   \o <<";">> \o strServiceDstAddr>>
            ELSE IF strProtocol \in {<<"6">>, <<"17">>, <<"132">>}
            THEN <<strProtocol \o <<"/">> \o toStr(at(arrayToken, NMCOL_SRC_PORT)) \o <<"/">>
                   \o toStr(at(arrayToken, NMCOL_DST_PORT)) \o <<";">> \o strServiceDstAddr>>
            ELSE <<strProtocol \o <<";">> \o strServiceDstAddr>>
    IN  IF at(arrayToken, NMCOL_PROTOCOL) = Undefined \/ at(arrayToken, NMCOL_PROTOCOL) = <<>>
        THEN <<>>
        ELSE array(at(arrayToken, NMCOL_PROTOCOL),
                   domainData(dd, at(arrayToken, NMCOL_DOM_NAME)))

funcFlattenAddressAndAddressGroupOfNormalizedPolicy(dd, arrayToken) ==
    LET rows(arraySrcIP, arrayDstIP) ==
            IF Len(arraySrcIP) > 0 /\ arraySrcIP[1] # <<>>
               /\ Len(arrayDstIP) > 0 /\ arrayDstIP[1] # <<>>
            THEN [index \in 1..(Len(arraySrcIP) * Len(arrayDstIP)) |->
                    flatString(arrayToken,
                        (NMCOL_SRC_ADDR :> arraySrcIP[((index - 1) \div Len(arrayDstIP)) + 1])
                        @@ (NMCOL_DST_ADDR :> arrayDstIP[((index - 1) % Len(arrayDstIP)) + 1]))]
            ELSE <<>>
    IN  rows(getAddressArray(dd, arrayToken, NMCOL_SRC_ADDR),
             getAddressArray(dd, arrayToken, NMCOL_DST_ADDR))

funcFlattenServiceAndServiceGroupOfNormalizedPolicy(dd, arrayToken) ==
    LET none == <<"-", "/", "-">>
        columns(array, strServiceDstAddr, strProtocol, isTcpUdpSctp, isIcmp, isIp) ==
            LET pair(a, b) == toStr(at(array, a)) \o <<"/">> \o toStr(at(array, b))
                known == isTcpUdpSctp \/ isIcmp \/ isIp
            IN  flatString(arrayToken,
                    (NMCOL_PROTOCOL :> strProtocol)
                    @@ (NMCOL_SRC_PORT :> IF isTcpUdpSctp THEN pair(1, 2)
                                          ELSE IF known THEN none ELSE strProtocol)
                    @@ (NMCOL_DST_PORT :> IF isTcpUdpSctp THEN pair(3, 4)
                                          ELSE IF known THEN none ELSE strProtocol)
                    @@ (NMCOL_SERVICE_DSTADDR :> strServiceDstAddr)
                    @@ (NMCOL_ICMPTYCD :> IF isTcpUdpSctp THEN none
                                          ELSE IF isIcmp THEN pair(1, 2)
                                          ELSE IF known THEN none ELSE strProtocol))
        protocol(array, strServiceDstAddr) ==
            columns(array, strServiceDstAddr, array[1],
                    array[1] \in {<<"6">>, <<"17">>, <<"132">>},
                    array[1] \in {<<"1">>, <<"58">>},
                    array[1] = <<"ip">> \/ isIntegerString(array[1]))
        flat(arrayServiceAndDstaddr) ==
            protocol(split(arrayServiceAndDstaddr[1], <<"/">>), at(arrayServiceAndDstaddr, 1))
        rows(arrayService) ==
            IF Len(arrayService) > 0 /\ arrayService[1] # <<>>
            THEN [i \in 1..Len(arrayService) |-> flat(split(arrayService[i], <<";">>))]
            ELSE <<>>
    IN  rows(getServiceArray(dd, arrayToken))

\* funcFlatten is "address" or "service": the function the caller passes.
RECURSIVE flattenObjectAndGroupObjectOfNormalizedPolicy(_, _, _)
flattenObjectAndGroupObjectOfNormalizedPolicy(dd, arrayNormalizedPolicy, funcFlatten) ==
    LET flat(arrayToken) ==
            IF funcFlatten = "address"
            THEN funcFlattenAddressAndAddressGroupOfNormalizedPolicy(dd, arrayToken)
            ELSE funcFlattenServiceAndServiceGroupOfNormalizedPolicy(dd, arrayToken)
    IN  IF arrayNormalizedPolicy = <<>> THEN <<>>
        ELSE flat(split(arrayNormalizedPolicy[1], <<",">>))
             \o flattenObjectAndGroupObjectOfNormalizedPolicy(dd, Tail(arrayNormalizedPolicy),
                                                             funcFlatten)

\* All the policy rows of the store: domains in insertion order, and in each
\* the lists in the order of t_PolicyPropertyName.
RECURSIVE allNormalizedPolicies(_, _, _)
allNormalizedPolicies(dd, key, i) ==
    IF key > Len(dd) THEN <<>>
    ELSE IF i > Len(t_PolicyPropertyName) THEN allNormalizedPolicies(dd, key + 1, 1)
    ELSE dd[key][t_PolicyPropertyName[i]] \o allNormalizedPolicies(dd, key, i + 1)

\* The flattening of the normalized row arrayToken raises a TypeError:
\* getAddressArray or getServiceArray finds, under the name of the column, a
\* property its table inherits and no entry, and flattenMember spreads the
\* undefined `value` of it.  The services are flattened for the rows the
\* addresses have given.
flattenThrows(dd, arrayToken, boolAddress, boolService) ==
    LET objDomain == domainData(dd, at(arrayToken, NMCOL_DOM_NAME))
        is(strType) == at(arrayToken, NMCOL_POL_TYPE) = <<strType>>
        inherited(strName, objObject) ==
            strName \in t_ObjectPrototypeName /\ strName \notin DOMAIN objObject
        srcThrows ==
            \/ /\ is("4to4") \/ is("4to6") \/ is("4to4m")
               /\ inherited(at(arrayToken, NMCOL_SRC_ADDR), objDomain.address4)
            \/ /\ is("6to6") \/ is("6to4") \/ is("6to6m")
               /\ inherited(at(arrayToken, NMCOL_SRC_ADDR), objDomain.address6)
        dstThrows ==
            \/ /\ is("4to4") \/ is("6to4")
               /\ inherited(at(arrayToken, NMCOL_DST_ADDR), objDomain.address4)
            \/ /\ is("6to6") \/ is("4to6")
               /\ inherited(at(arrayToken, NMCOL_DST_ADDR), objDomain.address6)
            \/ /\ is("4to4m")
               /\ inherited(at(arrayToken, NMCOL_DST_ADDR), objDomain.multicastaddress4)
            \/ /\ is("6to6m")
               /\ inherited(at(arrayToken, NMCOL_DST_ADDR), objDomain.multicastaddress6)
    IN  \/ boolAddress /\ (srcThrows \/ dstThrows)
        \/ /\ boolService
           /\ inherited(at(arrayToken, NMCOL_PROTOCOL), objDomain.service_custom)
           /\ boolAddress =>
                  funcFlattenAddressAndAddressGroupOfNormalizedPolicy(dd, arrayToken) # <<>>

\* The new contents of arrayAllFlattenedPolicies.
flattenAllNormalizedPolicies(dd, boolAddress, boolService) ==
    LET services(a) ==
            IF boolService
            THEN flattenObjectAndGroupObjectOfNormalizedPolicy(dd, a, "service") ELSE a
        flattened(strRow) ==
            services(IF boolAddress
                     THEN flattenObjectAndGroupObjectOfNormalizedPolicy(dd, <<strRow>>, "address")
                     ELSE <<strRow>>)
        RECURSIVE all(_, _)
        all(arrayNormalizedPolicies, i) ==
            IF i > Len(arrayNormalizedPolicies) THEN <<>>
            ELSE IF flattenThrows(dd, split(arrayNormalizedPolicies[i], <<",">>),
                                  boolAddress, boolService)
            THEN <<>>
            ELSE flattened(arrayNormalizedPolicies[i]) \o all(arrayNormalizedPolicies, i + 1)
    IN  all(allNormalizedPolicies(dd, 1, 1), 1)

(***************************************************************************)
(* The address lookup                                                      *)
(***************************************************************************)

LOOKUP_ADDRESS_TYPE_UNKNOWN == 0

LOOKUP_ADDRESS_TYPE_IPV4 == 1

LOOKUP_ADDRESS_TYPE_IPV6 == 2

LOOKUP_ADDRESS_TYPE_FQDN == 3

LOOKUP_ADDRESS_TYPE_GEO == 4

IPV4_ANY == <<"0", ".", "0", ".", "0", ".", "0", "/", "0">>

IPV6_ANY ==
    <<"0000", ":", "0000", ":", "0000", ":", "0000", ":", "0000", ":", "0000", ":", "0000",
      ":", "0000", "/", "0">>

\* a & b on the values of a Uint8Array.
RECURSIVE bitAnd(_, _)
bitAnd(a, b) ==
    IF a = 0 \/ b = 0 THEN 0
    ELSE ((a % 2) * (b % 2)) + 2 * bitAnd(a \div 2, b \div 2)

getOctetNetMaskFromOctetPrefixLength(intOctetPrefixLength) ==
    256 - 2 ^ (8 - intOctetPrefixLength)

\* getIPv4NetMaskFromPrefixLength for the prefix lengths 0..32.
getIPv4NetMaskFromPrefixLength(intIPv4PrefixLength) ==
    LET mask(a, b, c, d) ==
            numStr(a) \o <<".">> \o numStr(b) \o <<".">> \o numStr(c) \o <<".">> \o numStr(d)
    IN  CASE intIPv4PrefixLength \in 0..7 ->
                mask(getOctetNetMaskFromOctetPrefixLength(intIPv4PrefixLength), 0, 0, 0)
          [] intIPv4PrefixLength \in 8..15 ->
                mask(255, getOctetNetMaskFromOctetPrefixLength(intIPv4PrefixLength - 8), 0, 0)
          [] intIPv4PrefixLength \in 16..23 ->
                mask(255, 255, getOctetNetMaskFromOctetPrefixLength(intIPv4PrefixLength - 16), 0)
          [] intIPv4PrefixLength \in 24..32 ->
                mask(255, 255, 255,
                     getOctetNetMaskFromOctetPrefixLength(intIPv4PrefixLength - 24))

\* One octet of getBitwiseANDedIPv4Addr: (a & b).toString() of two decimal
\* octets.
getBitwiseANDedOctet(strOctetA, strOctetB) ==
    CASE parseInt(strOctetA) >= 0 /\ parseInt(strOctetB) >= 0 ->
            numStr(bitAnd(parseInt(strOctetA), parseInt(strOctetB)))

\* getBitwiseANDedIPv4Addr for addresses of four decimal octets.
getBitwiseANDedIPv4Addr(strIPv4AddrA, strIPv4AddrB) ==
    getBitwiseANDedOctet(split(strIPv4AddrA, <<".">>)[1], split(strIPv4AddrB, <<".">>)[1])
    \o <<".">>
    \o getBitwiseANDedOctet(split(strIPv4AddrA, <<".">>)[2], split(strIPv4AddrB, <<".">>)[2])
    \o <<".">>
    \o getBitwiseANDedOctet(split(strIPv4AddrA, <<".">>)[3], split(strIPv4AddrB, <<".">>)[3])
    \o <<".">>
    \o getBitwiseANDedOctet(split(strIPv4AddrA, <<".">>)[4], split(strIPv4AddrB, <<".">>)[4])

getIPv4StartAddr(strIPv4Addr, strIPv4NetMask) ==
    getBitwiseANDedIPv4Addr(strIPv4Addr, strIPv4NetMask)

\* The comparison that ends isIPv4WithPrefixLengthIncludedInSegment.
isIPv4NetworkIncludedInSegment(strTestIPv4Addr, intTestIPv4PrefixLength, strTestIPv4NetworkAddr, intIPv4SegmentPrefixLength, strIPv4SegmentNetMask, strIPv4SegmentNetworkAddr) ==
    IF intTestIPv4PrefixLength = intIPv4SegmentPrefixLength
    THEN strTestIPv4NetworkAddr = strIPv4SegmentNetworkAddr
    ELSE IF intTestIPv4PrefixLength > intIPv4SegmentPrefixLength
    THEN getIPv4StartAddr(strTestIPv4Addr, strIPv4SegmentNetMask) = strIPv4SegmentNetworkAddr
    ELSE FALSE

\* isIPv4WithPrefixLengthIncludedInSegment behind its two split('/').  A test
\* address that is not its network address is a host address, of prefix
\* length 32; the network address of the test is the test address then, as it
\* is when the two are equal.  isIPv4AddrIncludedInSegmentAsGiven is the
\* comparison with the prefix length of the test address as it is given.
isIPv4AddrIncludedInSegmentAsGiven(strTestIPv4Addr, intTestIPv4PrefixLength, strIPv4SegmentAddr, intIPv4SegmentPrefixLength) ==
    isIPv4NetworkIncludedInSegment(
        strTestIPv4Addr,
        intTestIPv4PrefixLength,
        strTestIPv4Addr,
        intIPv4SegmentPrefixLength,
        getIPv4NetMaskFromPrefixLength(intIPv4SegmentPrefixLength),
        getIPv4StartAddr(strIPv4SegmentAddr,
                         getIPv4NetMaskFromPrefixLength(intIPv4SegmentPrefixLength)))

isIPv4AddrIncludedInSegment(strTestIPv4Addr, intTestIPv4PrefixLength, strIPv4SegmentAddr, intIPv4SegmentPrefixLength) ==
    isIPv4NetworkIncludedInSegment(
        strTestIPv4Addr,
        IF getIPv4StartAddr(strTestIPv4Addr,
                            getIPv4NetMaskFromPrefixLength(intTestIPv4PrefixLength))
           # strTestIPv4Addr
        THEN 32 ELSE intTestIPv4PrefixLength,
        strTestIPv4Addr,
        intIPv4SegmentPrefixLength,
        getIPv4NetMaskFromPrefixLength(intIPv4SegmentPrefixLength),
        getIPv4StartAddr(strIPv4SegmentAddr,
                         getIPv4NetMaskFromPrefixLength(intIPv4SegmentPrefixLength)))

isIPv4WithPrefixLengthIncludedInSegment(strTestIPv4WithPrefixLength, strIPv4SegmentNetworkAddrWithPrefixLength) ==
    isIPv4AddrIncludedInSegment(
        split(strTestIPv4WithPrefixLength, <<"/">>)[1],
        parseInt(at(split(strTestIPv4WithPrefixLength, <<"/">>), 1)),
        split(strIPv4SegmentNetworkAddrWithPrefixLength, <<"/">>)[1],
        parseInt(at(split(strIPv4SegmentNetworkAddrWithPrefixLength, <<"/">>), 1)))

\* isIPv6WithPrefixLengthIncludedInSegment for a test address that is the
\* segment itself, in full representation with a prefix length.
isIPv6WithPrefixLengthIncludedInSegment(strTestIPv6WithPrefixLength, strIPv6SegmentNetworkAddrWithPrefixLength) ==
    CASE strTestIPv6WithPrefixLength = strIPv6SegmentNetworkAddrWithPrefixLength
         /\ Len(strTestIPv6WithPrefixLength) = 17
         /\ parseInt(<<strTestIPv6WithPrefixLength[17]>>) \in 0..128 -> TRUE

\* One octet of getBitwiseORedIPv4AddrWithInvertBits: (a | (b ^ 0xFF)).toString()
\* of two decimal octets, a | c being a + c - (a & c).
getBitwiseORedOctetWithInvertBits(strOctetA, strOctetB) ==
    CASE parseInt(strOctetA) >= 0 /\ parseInt(strOctetB) >= 0 ->
            numStr(parseInt(strOctetA) + (255 - parseInt(strOctetB))
                   - bitAnd(parseInt(strOctetA), 255 - parseInt(strOctetB)))

\* getBitwiseORedIPv4AddrWithInvertBits for addresses of four decimal octets.
getBitwiseORedIPv4AddrWithInvertBits(strIPv4AddrA, strIPv4AddrB) ==
    getBitwiseORedOctetWithInvertBits(split(strIPv4AddrA, <<".">>)[1], split(strIPv4AddrB, <<".">>)[1])
    \o <<".">>
    \o getBitwiseORedOctetWithInvertBits(split(strIPv4AddrA, <<".">>)[2], split(strIPv4AddrB, <<".">>)[2])
    \o <<".">>
    \o getBitwiseORedOctetWithInvertBits(split(strIPv4AddrA, <<".">>)[3], split(strIPv4AddrB, <<".">>)[3])
    \o <<".">>
    \o getBitwiseORedOctetWithInvertBits(split(strIPv4AddrA, <<".">>)[4], split(strIPv4AddrB, <<".">>)[4])

getIPv4EndAddr(strIPv4Addr, strIPv4NetMask) ==
    getBitwiseORedIPv4AddrWithInvertBits(strIPv4Addr, strIPv4NetMask)

\* The two comparisons of isIPv4WithPrefixLengthIncludedInFortinetWildcardAddr
\* for one address: its Maskbits0 and Maskbits1 are those of the wildcard
\* address.
isIPv4AddrMatchedInFortinetWildcardAddr(strIPv4Addr, strIPv4WildcardAddr, strIPv4WildcardMask) ==
    /\ getBitwiseANDedIPv4Addr(strIPv4Addr, strIPv4WildcardMask)
           = getBitwiseANDedIPv4Addr(strIPv4WildcardAddr, strIPv4WildcardMask)
    /\ getBitwiseORedIPv4AddrWithInvertBits(strIPv4Addr, strIPv4WildcardMask)
           = getBitwiseORedIPv4AddrWithInvertBits(strIPv4WildcardAddr, strIPv4WildcardMask)

\* The test address is taken as a host address: its prefix length is 32, or it
\* is not its network address.
isIPv4TestHostAddr(strTestIPv4Addr, intTestIPv4PrefixLength) ==
    \/ intTestIPv4PrefixLength = 32
    \/ getIPv4StartAddr(strTestIPv4Addr, getIPv4NetMaskFromPrefixLength(intTestIPv4PrefixLength))
           # strTestIPv4Addr

\* isIPv4WithPrefixLengthIncludedInFortinetWildcardAddrNetworkOnly is the test
\* without the comparisons of the broadcast address of a network segment.
isIPv4WithPrefixLengthIncludedInFortinetWildcardAddrNetworkOnly(strTestIPv4WithPrefixLength, strIPv4AddrWithWildcardMask) ==
    isIPv4AddrMatchedInFortinetWildcardAddr(
        split(strTestIPv4WithPrefixLength, <<"/">>)[1],
        split(strIPv4AddrWithWildcardMask, <<"/">>)[1],
        split(strIPv4AddrWithWildcardMask, <<"/">>)[2])

isIPv4WithPrefixLengthIncludedInFortinetWildcardAddr(strTestIPv4WithPrefixLength, strIPv4AddrWithWildcardMask) ==
    IF isIPv4TestHostAddr(split(strTestIPv4WithPrefixLength, <<"/">>)[1],
                          parseInt(at(split(strTestIPv4WithPrefixLength, <<"/">>), 1)))
    THEN isIPv4AddrMatchedInFortinetWildcardAddr(
             split(strTestIPv4WithPrefixLength, <<"/">>)[1],
             split(strIPv4AddrWithWildcardMask, <<"/">>)[1],
             split(strIPv4AddrWithWildcardMask, <<"/">>)[2])
    ELSE /\ isIPv4AddrMatchedInFortinetWildcardAddr(
                split(strTestIPv4WithPrefixLength, <<"/">>)[1],
                split(strIPv4AddrWithWildcardMask, <<"/">>)[1],
                split(strIPv4AddrWithWildcardMask, <<"/">>)[2])
         /\ isIPv4AddrMatchedInFortinetWildcardAddr(
                getIPv4EndAddr(split(strTestIPv4WithPrefixLength, <<"/">>)[1],
                               getIPv4NetMaskFromPrefixLength(
                                   parseInt(at(split(strTestIPv4WithPrefixLength, <<"/">>), 1)))),
                split(strIPv4AddrWithWildcardMask, <<"/">>)[1],
                split(strIPv4AddrWithWildcardMask, <<"/">>)[2])

\* The stored values of the model are addresses in CIDR notation and with
\* wildcard masks, names, geographies and FQDNs: ranges and the test of an FQDN
\* against a stored FQDN are not part of it.
\* isWithinAnyTrue is isWithin with a first return that ignores boolNegate.
isWithinAnyTrue(strAddrToBeLookedUp, strLookupAddr, intLookupAddrType, boolNegate, boolFqdnAndGeoMatchAll) ==
    LET isGeoOrFqdn == startsWith(strAddrToBeLookedUp, <<"geo", ":">>)
                       \/ startsWith(strAddrToBeLookedUp, <<"fqdn", ":">>)
        hasColon == indexOf(strAddrToBeLookedUp, <<":">>) # -1
    IN  IF (intLookupAddrType = LOOKUP_ADDRESS_TYPE_IPV4 /\ strAddrToBeLookedUp = IPV4_ANY)
           \/ (intLookupAddrType = LOOKUP_ADDRESS_TYPE_IPV6 /\ strAddrToBeLookedUp = IPV6_ANY)
        THEN TRUE
        ELSE IF intLookupAddrType = LOOKUP_ADDRESS_TYPE_GEO
        THEN IF startsWith(strAddrToBeLookedUp, <<"geo", ":">>)
             THEN boolNegate # (strLookupAddr = substringFrom(strAddrToBeLookedUp, 2))
             ELSE boolNegate # boolFqdnAndGeoMatchAll
        ELSE IF intLookupAddrType = LOOKUP_ADDRESS_TYPE_FQDN
        THEN CASE ~startsWith(strAddrToBeLookedUp, <<"fqdn", ":">>) ->
                    boolNegate # boolFqdnAndGeoMatchAll
        ELSE IF intLookupAddrType = LOOKUP_ADDRESS_TYPE_IPV4
        THEN IF isGeoOrFqdn THEN boolNegate # boolFqdnAndGeoMatchAll
             ELSE IF hasColon THEN boolNegate
             ELSE CASE indexOf(strAddrToBeLookedUp, <<"-">>) = -1 ->
                        IF at(split(strAddrToBeLookedUp, <<"/">>), 1) # Undefined
                           /\ at(split(strAddrToBeLookedUp, <<"/">>), 1) # <<>>
                        THEN IF indexOf(at(split(strAddrToBeLookedUp, <<"/">>), 1),
                                        <<".">>) = -1
                             THEN IF isIPv4WithPrefixLengthIncludedInSegment(
                                         strLookupAddr, strAddrToBeLookedUp)
                                  THEN ~boolNegate ELSE boolNegate
                             ELSE IF isIPv4WithPrefixLengthIncludedInFortinetWildcardAddr(
                                         strLookupAddr, strAddrToBeLookedUp)
                                  THEN ~boolNegate ELSE boolNegate
                        ELSE boolNegate
        ELSE IF intLookupAddrType = LOOKUP_ADDRESS_TYPE_IPV6
        THEN IF isGeoOrFqdn THEN boolNegate # boolFqdnAndGeoMatchAll
             ELSE IF ~hasColon THEN boolNegate
             ELSE CASE indexOf(strAddrToBeLookedUp, <<"-">>) = -1 ->
                        IF indexOf(strAddrToBeLookedUp, <<"/">>) # -1
                           /\ isIPv6WithPrefixLengthIncludedInSegment(strLookupAddr,
                                                                      strAddrToBeLookedUp)
                        THEN ~boolNegate ELSE boolNegate
        ELSE boolNegate

isWithin(strAddrToBeLookedUp, strLookupAddr, intLookupAddrType, boolNegate, boolFqdnAndGeoMatchAll) ==
    LET isGeoOrFqdn == startsWith(strAddrToBeLookedUp, <<"geo", ":">>)
                       \/ startsWith(strAddrToBeLookedUp, <<"fqdn", ":">>)
        hasColon == indexOf(strAddrToBeLookedUp, <<":">>) # -1
    IN  IF (intLookupAddrType = LOOKUP_ADDRESS_TYPE_IPV4 /\ strAddrToBeLookedUp = IPV4_ANY)
           \/ (intLookupAddrType = LOOKUP_ADDRESS_TYPE_IPV6 /\ strAddrToBeLookedUp = IPV6_ANY)
        THEN ~boolNegate
        ELSE IF intLookupAddrType = LOOKUP_ADDRESS_TYPE_GEO
        THEN IF startsWith(strAddrToBeLookedUp, <<"geo", ":">>)
             THEN boolNegate # (strLookupAddr = substringFrom(strAddrToBeLookedUp, 2))
             ELSE boolNegate # boolFqdnAndGeoMatchAll
        ELSE IF intLookupAddrType = LOOKUP_ADDRESS_TYPE_FQDN
        THEN CASE ~startsWith(strAddrToBeLookedUp, <<"fqdn", ":">>) ->
                    boolNegate # boolFqdnAndGeoMatchAll
        ELSE IF intLookupAddrType = LOOKUP_ADDRESS_TYPE_IPV4
        THEN IF isGeoOrFqdn THEN boolNegate # boolFqdnAndGeoMatchAll
             ELSE IF hasColon THEN boolNegate
             ELSE CASE indexOf(strAddrToBeLookedUp, <<"-">>) = -1 ->
                        IF at(split(strAddrToBeLookedUp, <<"/">>), 1) # Undefined
                           /\ at(split(strAddrToBeLookedUp, <<"/">>), 1) # <<>>
                        THEN IF indexOf(at(split(strAddrToBeLookedUp, <<"/">>), 1),
                                        <<".">>) = -1
                             THEN IF isIPv4WithPrefixLengthIncludedInSegment(
                                         strLookupAddr, strAddrToBeLookedUp)
                                  THEN ~boolNegate ELSE boolNegate
                             ELSE IF isIPv4WithPrefixLengthIncludedInFortinetWildcardAddr(
                                         strLookupAddr, strAddrToBeLookedUp)
                                  THEN ~boolNegate ELSE boolNegate
                        ELSE boolNegate
        ELSE IF intLookupAddrType = LOOKUP_ADDRESS_TYPE_IPV6
        THEN IF isGeoOrFqdn THEN boolNegate # boolFqdnAndGeoMatchAll
             ELSE IF ~hasColon THEN boolNegate
             ELSE CASE indexOf(strAddrToBeLookedUp, <<"-">>) = -1 ->
                        IF indexOf(strAddrToBeLookedUp, <<"/">>) # -1
                           /\ isIPv6WithPrefixLengthIncludedInSegment(strLookupAddr,
                                                                      strAddrToBeLookedUp)
                        THEN ~boolNegate ELSE boolNegate
        ELSE boolNegate

\* strPolicyKey of a row; policyKeyOfPolicy is the key that tells the policies
\* of one type and one pair of interfaces apart.
policyKeyOfPolicy(arrayToken) ==
    toStr(at(arrayToken, NMCOL_POL_TYPE)) \o <<"_">>
    \o toStr(at(arrayToken, NMCOL_SRC_INTF)) \o <<"_">>
    \o toStr(at(arrayToken, NMCOL_DST_INTF)) \o <<"_">>
    \o toStr(at(arrayToken, NMCOL_POL_ID))

policyKey(arrayToken) ==
    toStr(at(arrayToken, NMCOL_POL_TYPE)) \o <<"_">>
    \o toStr(at(arrayToken, NMCOL_SRC_INTF)) \o <<"_">>
    \o toStr(at(arrayToken, NMCOL_DST_INTF))

isAddrType4to4(arrayToken) == at(arrayToken, NMCOL_POL_TYPE) \in {<<"4to4">>, <<"4to4m">>}

isAddrType6to6(arrayToken) == at(arrayToken, NMCOL_POL_TYPE) \in {<<"6to6">>, <<"6to6m">>}

isAddrType4to6(arrayToken) == at(arrayToken, NMCOL_POL_TYPE) = <<"4to6">>

isAddrType6to4(arrayToken) == at(arrayToken, NMCOL_POL_TYPE) = <<"6to4">>

\* The condition under which a matched row adds its key to
\* objPolicyIneffectual; boolFrom is boolSrcMatched || boolBothMatched.
\* isPolicyIneffectualAnyToAny is the condition without its last disjunct.
isPolicyIneffectualAnyToAny(arrayToken, boolFrom) ==
    /\ at(arrayToken, NMCOL_ACTION) = <<"deny">>
    /\ at(arrayToken, NMCOL_STATUS) = <<"enable">>
    /\ at(arrayToken, NMCOL_PROTOCOL) = <<"ip">>
    /\ \/ /\ isAddrType4to4(arrayToken)
          /\ at(arrayToken, NMCOL_SRC_ADDR) = IPV4_ANY
          /\ at(arrayToken, NMCOL_DST_ADDR) = IPV4_ANY
       \/ /\ isAddrType6to6(arrayToken)
          /\ at(arrayToken, NMCOL_SRC_ADDR) = IPV6_ANY
          /\ at(arrayToken, NMCOL_DST_ADDR) = IPV6_ANY
       \/ /\ isAddrType4to6(arrayToken)
          /\ at(arrayToken, NMCOL_SRC_ADDR) = IPV4_ANY
          /\ at(arrayToken, NMCOL_DST_ADDR) = IPV6_ANY

isPolicyIneffectual(arrayToken, boolFrom) ==
    /\ at(arrayToken, NMCOL_ACTION) = <<"deny">>
    /\ at(arrayToken, NMCOL_STATUS) = <<"enable">>
    /\ at(arrayToken, NMCOL_PROTOCOL) = <<"ip">>
    /\ \/ /\ isAddrType4to4(arrayToken)
          /\ at(arrayToken, NMCOL_SRC_ADDR) = IPV4_ANY
          /\ at(arrayToken, NMCOL_DST_ADDR) = IPV4_ANY
       \/ /\ isAddrType6to6(arrayToken)
          /\ at(arrayToken, NMCOL_SRC_ADDR) = IPV6_ANY
          /\ at(arrayToken, NMCOL_DST_ADDR) = IPV6_ANY
       \/ /\ isAddrType4to6(arrayToken)
          /\ at(arrayToken, NMCOL_SRC_ADDR) = IPV4_ANY
          /\ at(arrayToken, NMCOL_DST_ADDR) = IPV6_ANY
       \/ /\ boolFrom
          /\ \/ isAddrType4to4(arrayToken) /\ at(arrayToken, NMCOL_DST_ADDR) = IPV4_ANY
             \/ /\ isAddrType4to6(arrayToken) \/ isAddrType6to6(arrayToken)
                /\ at(arrayToken, NMCOL_DST_ADDR) = IPV6_ANY

\* The two push() of a matched row.  acc holds the two result arrays,
\* objPolicyIneffectual (the set of its keys) and, for every element of
\* arrayResult, a record of the iteration that pushed it; objPolicyIneffectual
\* is the set after the row's own key was added or not.
pushMatched(acc, strLine, arrayToken, strAdd, boolFrom, scan, objPolicyIneffectual) ==
    [acc EXCEPT
        !.arrayResult = Append(@, strAdd),
        !.objPolicyIneffectual = objPolicyIneffectual,
        !.arrayResultWithoutIneffectual =
            IF at(arrayToken, NMCOL_STATUS) = <<"enable">>
               /\ policyKey(arrayToken) \notin objPolicyIneffectual
            THEN Append(@, strAdd) ELSE @,
        !.pushed = Append(@, [scan |-> scan,
                              strLine |-> strLine,
                              from |-> boolFrom,
                              without |-> at(arrayToken, NMCOL_STATUS) = <<"enable">>
                                  /\ policyKey(arrayToken) \notin objPolicyIneffectual])]

\* `Save the matched line into arrays.`
saveMatched(acc, strLine, arrayToken, boolSrcMatched, boolDstMatched, boolBothMatched, str1stColumn, scan) ==
    IF boolSrcMatched \/ boolDstMatched \/ boolBothMatched
    THEN pushMatched(acc, strLine, arrayToken, str1stColumn \o <<",">> \o strLine,
                     boolSrcMatched \/ boolBothMatched, scan,
                     IF isPolicyIneffectual(arrayToken, boolSrcMatched \/ boolBothMatched)
                     THEN acc.objPolicyIneffectual \cup {policyKey(arrayToken)}
                     ELSE acc.objPolicyIneffectual)
    ELSE acc

\* The part of str1stColumn that names one lookup address.
lookupColumn(intAddrType, strAddr) ==
    (IF intAddrType = LOOKUP_ADDRESS_TYPE_FQDN THEN <<"fqdn", ":">>
     ELSE IF intAddrType = LOOKUP_ADDRESS_TYPE_GEO THEN <<"geo", ":">> ELSE <<>>)
    \o strAddr

\* `Test whether the lookup address matches the current line.`  boolSrcWithin
\* and boolDstWithin are the outcomes of isWithin for the source and for the
\* destination with the service destination address, taken where the code
\* calls isWithin.
testMatched(acc, strLine, arrayToken, intSrcAddrType, strSrcAddr, intDstAddrType, strDstAddr, boolSrcWithin, boolDstWithin, scan) ==
    IF intSrcAddrType # LOOKUP_ADDRESS_TYPE_UNKNOWN
       /\ intDstAddrType = LOOKUP_ADDRESS_TYPE_UNKNOWN
    THEN saveMatched(acc, strLine, arrayToken, boolSrcWithin, FALSE, FALSE,
                     <<"from", "_">> \o lookupColumn(intSrcAddrType, strSrcAddr), scan)
    ELSE IF intSrcAddrType = LOOKUP_ADDRESS_TYPE_UNKNOWN
            /\ intDstAddrType # LOOKUP_ADDRESS_TYPE_UNKNOWN
    THEN saveMatched(acc, strLine, arrayToken, FALSE, boolDstWithin, FALSE,
                     <<"to", "_">> \o lookupColumn(intDstAddrType, strDstAddr), scan)
    ELSE saveMatched(acc, strLine, arrayToken, FALSE, FALSE, boolSrcWithin /\ boolDstWithin,
                     <<"from", "_">> \o lookupColumn(intSrcAddrType, strSrcAddr)
                     \o <<"_", "to", "_">> \o lookupColumn(intDstAddrType, strDstAddr), scan)

\* lookUpRow without the test of the service destination address.
lookUpRowAddressOnly(acc, strLine, arrayToken, intSrcAddrType, strSrcAddr, strSrcFullAddr, intDstAddrType, strDstAddr, strDstFullAddr, boolFqdnAndGeoMatchAll, scan) ==
    IF \/ isAddrType4to4(arrayToken) /\ (intSrcAddrType = LOOKUP_ADDRESS_TYPE_IPV6
                                         \/ intDstAddrType = LOOKUP_ADDRESS_TYPE_IPV6)
       \/ isAddrType4to6(arrayToken) /\ (intSrcAddrType = LOOKUP_ADDRESS_TYPE_IPV6
                                         \/ intDstAddrType = LOOKUP_ADDRESS_TYPE_IPV4)
       \/ isAddrType6to4(arrayToken) /\ (intSrcAddrType = LOOKUP_ADDRESS_TYPE_IPV4
                                         \/ intDstAddrType = LOOKUP_ADDRESS_TYPE_IPV6)
       \/ isAddrType6to6(arrayToken) /\ (intSrcAddrType = LOOKUP_ADDRESS_TYPE_IPV4
                                         \/ intDstAddrType = LOOKUP_ADDRESS_TYPE_IPV4)
    THEN acc
    ELSE testMatched(acc, strLine, arrayToken, intSrcAddrType, strSrcAddr, intDstAddrType,
             strDstAddr,
             isWithin(at(arrayToken, NMCOL_SRC_ADDR), strSrcFullAddr, intSrcAddrType,
                      at(arrayToken, NMCOL_SRCADDR_NEGATE) = <<"enable">>,
                      boolFqdnAndGeoMatchAll),
             isWithin(at(arrayToken, NMCOL_DST_ADDR), strDstFullAddr, intDstAddrType,
                      at(arrayToken, NMCOL_DSTADDR_NEGATE) = <<"enable">>,
                      boolFqdnAndGeoMatchAll),
             scan)

\* One iteration of the loop over the rows, arrayToken being strLine.split(',').
lookUpRow(acc, strLine, arrayToken, intSrcAddrType, strSrcAddr, strSrcFullAddr, intDstAddrType, strDstAddr, strDstFullAddr, boolFqdnAndGeoMatchAll, scan) ==
    IF \/ isAddrType4to4(arrayToken) /\ (intSrcAddrType = LOOKUP_ADDRESS_TYPE_IPV6
                                         \/ intDstAddrType = LOOKUP_ADDRESS_TYPE_IPV6)
       \/ isAddrType4to6(arrayToken) /\ (intSrcAddrType = LOOKUP_ADDRESS_TYPE_IPV6
                                         \/ intDstAddrType = LOOKUP_ADDRESS_TYPE_IPV4)
       \/ isAddrType6to4(arrayToken) /\ (intSrcAddrType = LOOKUP_ADDRESS_TYPE_IPV4
                                         \/ intDstAddrType = LOOKUP_ADDRESS_TYPE_IPV6)
       \/ isAddrType6to6(arrayToken) /\ (intSrcAddrType = LOOKUP_ADDRESS_TYPE_IPV4
                                         \/ intDstAddrType = LOOKUP_ADDRESS_TYPE_IPV4)
    THEN acc
    ELSE testMatched(acc, strLine, arrayToken, intSrcAddrType, strSrcAddr, intDstAddrType,
             strDstAddr,
             isWithin(at(arrayToken, NMCOL_SRC_ADDR), strSrcFullAddr, intSrcAddrType,
                      at(arrayToken, NMCOL_SRCADDR_NEGATE) = <<"enable">>,
                      boolFqdnAndGeoMatchAll),
             /\ isWithin(at(arrayToken, NMCOL_DST_ADDR), strDstFullAddr, intDstAddrType,
                         at(arrayToken, NMCOL_DSTADDR_NEGATE) = <<"enable">>,
                         boolFqdnAndGeoMatchAll)
             /\ \/ at(arrayToken, NMCOL_SERVICE_DSTADDR) = <<"0", "/", "0">>
                \/ at(arrayToken, NMCOL_SERVICE_DSTADDR) = <<"-">>
                \/ isWithin(at(arrayToken, NMCOL_SERVICE_DSTADDR), strDstFullAddr,
                            intDstAddrType,
                            at(arrayToken, NMCOL_SERVICE_NEGATE) = <<"enable">>,
                            boolFqdnAndGeoMatchAll),
             scan)

\* The loop over the rows, from the row i on.
RECURSIVE lookUpRows(_, _, _, _, _, _, _, _, _, _, _)
lookUpRows(arrayNormalizedPolicyToBeLookedUp, i, acc, intSrcAddrType, strSrcAddr, strSrcFullAddr, intDstAddrType, strDstAddr, strDstFullAddr, boolFqdnAndGeoMatchAll, scan) ==
    IF i > Len(arrayNormalizedPolicyToBeLookedUp) THEN acc
    ELSE lookUpRows(arrayNormalizedPolicyToBeLookedUp, i + 1,
                    lookUpRow(acc, arrayNormalizedPolicyToBeLookedUp[i],
                              split(arrayNormalizedPolicyToBeLookedUp[i], <<",">>),
                              intSrcAddrType, strSrcAddr, strSrcFullAddr, intDstAddrType,
                              strDstAddr, strDstFullAddr, boolFqdnAndGeoMatchAll, scan),
                    intSrcAddrType, strSrcAddr, strSrcFullAddr, intDstAddrType, strDstAddr,
                    strDstFullAddr, boolFqdnAndGeoMatchAll, scan)

\* lookUpFullAddr with the keys of the call before left in objPolicyIneffectual.
lookUpFullAddrKeepKeys(arrayNormalizedPolicyToBeLookedUp, strSrcAddr, intSrcAddrType, strSrcFullAddr, strDstAddr, intDstAddrType, strDstFullAddr, boolFqdnAndGeoMatchAll, acc, scan) ==
    IF (intSrcAddrType = LOOKUP_ADDRESS_TYPE_IPV6 /\ strSrcFullAddr = <<>>)
       \/ (intDstAddrType = LOOKUP_ADDRESS_TYPE_IPV6 /\ strDstFullAddr = <<>>)
    THEN acc
    ELSE lookUpRows(arrayNormalizedPolicyToBeLookedUp, 1,
                    acc, intSrcAddrType, strSrcAddr,
                    strSrcFullAddr, intDstAddrType, strDstAddr, strDstFullAddr,
                    boolFqdnAndGeoMatchAll, scan)

\* lookUpAddrInNormalizedPoliciesArray behind the computation of the two full
\* addresses: an invalid IPv6 address stops the lookup.
lookUpFullAddr(arrayNormalizedPolicyToBeLookedUp, strSrcAddr, intSrcAddrType, strSrcFullAddr, strDstAddr, intDstAddrType, strDstFullAddr, boolFqdnAndGeoMatchAll, acc, scan) ==
    IF (intSrcAddrType = LOOKUP_ADDRESS_TYPE_IPV6 /\ strSrcFullAddr = <<>>)
       \/ (intDstAddrType = LOOKUP_ADDRESS_TYPE_IPV6 /\ strDstFullAddr = <<>>)
    THEN acc
    ELSE lookUpRows(arrayNormalizedPolicyToBeLookedUp, 1,
                    [acc EXCEPT !.objPolicyIneffectual = {}], intSrcAddrType, strSrcAddr,
                    strSrcFullAddr, intDstAddrType, strDstAddr, strDstFullAddr,
                    boolFqdnAndGeoMatchAll, scan)

\* acc is the two result arrays the caller passes, with the history of the
\* pushes; scan numbers the call.
lookUpAddrInNormalizedPoliciesArray(arrayNormalizedPolicyToBeLookedUp, strSrcAddr, intSrcAddrType, strDstAddr, intDstAddrType, boolFqdnAndGeoMatchAll, acc, scan) ==
    lookUpFullAddr(arrayNormalizedPolicyToBeLookedUp, strSrcAddr, intSrcAddrType,
                   IF intSrcAddrType = LOOKUP_ADDRESS_TYPE_IPV6
                   THEN getIPv6FullRepresentedAddrWithPrefixLength(strSrcAddr)
                   ELSE strSrcAddr,
                   strDstAddr, intDstAddrType,
                   IF intDstAddrType = LOOKUP_ADDRESS_TYPE_IPV6
                   THEN getIPv6FullRepresentedAddrWithPrefixLength(strDstAddr)
                   ELSE strDstAddr,
                   boolFqdnAndGeoMatchAll, acc, scan)

\* /^\d+$/ on a word of the model.
isDecimalWord(strWord) == \E n \in 0..DecimalMax : strWord = decimalWord[n]

\* The labels of the host names of the model: three characters or more each.
t_HostLabel == {"www", "example", "com"}

\* The type of a lookup address and the address lookUpAddrList passes on.
lookupAddress(strAddr) ==
    LET isIPv4(str) ==
            /\ Len(str) = 7
            /\ \A i \in {1, 3, 5, 7} : isDecimalWord(str[i])
            /\ \A i \in {2, 4, 6} : str[i] = "."
    IN  IF strAddr = <<>> THEN [type |-> LOOKUP_ADDRESS_TYPE_UNKNOWN, addr |-> strAddr]
        ELSE IF startsWith(strAddr, <<"geo", ":">>)
        THEN [type |-> LOOKUP_ADDRESS_TYPE_GEO, addr |-> substringFrom(strAddr, 2)]
        ELSE IF startsWith(strAddr, <<"fqdn", ":">>)
        THEN [type |-> LOOKUP_ADDRESS_TYPE_FQDN, addr |-> substringFrom(strAddr, 2)]
        ELSE IF Len(strAddr) = 9 /\ isIPv4(SubSeq(strAddr, 1, 7)) /\ strAddr[8] = "/"
                /\ isDecimalWord(strAddr[9])
        THEN [type |-> LOOKUP_ADDRESS_TYPE_IPV4, addr |-> strAddr]
        ELSE IF isIPv4(strAddr)
        THEN [type |-> LOOKUP_ADDRESS_TYPE_IPV4, addr |-> strAddr \o <<"/", "32">>]
        ELSE IF indexOf(strAddr, <<":">>) # -1
        THEN [type |-> LOOKUP_ADDRESS_TYPE_IPV6, addr |-> strAddr]
        ELSE CASE \A i \in 1..Len(strAddr) :
                     IF i % 2 = 1 THEN strAddr[i] \in t_HostLabel ELSE strAddr[i] = "." ->
                    [type |-> LOOKUP_ADDRESS_TYPE_FQDN, addr |-> strAddr]
               [] \E i \in 1..Len(strAddr) :
                     strAddr[i] \in {"\"", " ", ",", "_", "/", ";", "'", "#", "!"} ->
                    [type |-> LOOKUP_ADDRESS_TYPE_UNKNOWN, addr |-> strAddr]

\* The call of lookUpAddrInNormalizedPoliciesArray for a line whose addresses
\* have their types, unless one of them is given and of no known type.
lookUpTyped(arrayNormalizedPolicyToBeLookedUp, src, dst, boolFqdnAndGeoMatchAll, acc, i) ==
    IF (src.addr # <<>> /\ src.type = LOOKUP_ADDRESS_TYPE_UNKNOWN)
       \/ (dst.addr # <<>> /\ dst.type = LOOKUP_ADDRESS_TYPE_UNKNOWN)
    THEN acc
    ELSE lookUpAddrInNormalizedPoliciesArray(arrayNormalizedPolicyToBeLookedUp,
             src.addr, src.type, dst.addr, dst.type, boolFqdnAndGeoMatchAll, acc, i)

\* One iteration of the loop of lookUpAddrList, strLine being trimmed.
lookUpLine(arrayNormalizedPolicyToBeLookedUp, strLine, boolFqdnAndGeoMatchAll, acc, i) ==
    IF Len(strLine) = 0 \/ strLine[1] = "!" \/ strLine[1] = "#" THEN acc
    ELSE lookUpTyped(arrayNormalizedPolicyToBeLookedUp,
                     lookupAddress(trim(split(strLine, <<",">>)[1])),
                     lookupAddress(IF Len(split(strLine, <<",">>)) >= 2
                                      /\ split(strLine, <<",">>)[2] # <<>>
                                   THEN trim(split(strLine, <<",">>)[2]) ELSE <<>>),
                     boolFqdnAndGeoMatchAll, acc, i)

\* The loop of lookUpAddrList, from the line i on.
RECURSIVE lookUpLines(_, _, _, _, _)
lookUpLines(arrayNormalizedPolicyToBeLookedUp, arrayText, boolFqdnAndGeoMatchAll, acc, i) ==
    IF i > Len(arrayText) THEN acc
    ELSE lookUpLines(arrayNormalizedPolicyToBeLookedUp, arrayText, boolFqdnAndGeoMatchAll,
                     lookUpLine(arrayNormalizedPolicyToBeLookedUp, trim(arrayText[i]),
                                boolFqdnAndGeoMatchAll, acc, i),
                     i + 1)

\* listOfLookUpAddr is the array of the lines of the list.  The outcome holds
\* the two result arrays and the history of the pushes.
lookUpAddrList(arrayNormalizedPolicyToBeLookedUp, listOfLookUpAddr, boolFqdnAndGeoMatchAll) ==
    lookUpLines(arrayNormalizedPolicyToBeLookedUp, listOfLookUpAddr, boolFqdnAndGeoMatchAll,
                [arrayResult |-> <<>>, arrayResultWithoutIneffectual |-> <<>>,
                 pushed |-> <<>>, objPolicyIneffectual |-> {}], 1)

(***************************************************************************)
(* The worker.  onmessage runs one message to its end before the next one  *)
(* is taken: the executors of the promises run synchronously.  The loop of *)
(* parseFortiGateConfig is taken apart into its iterations, so that the    *)
(* configuration text of a MAKE_LIST is every sequence of the input lines; *)
(* no other message is handled while pc = "parsing".                       *)
(***************************************************************************)

VARIABLES
    g_Domain_Data,           \* the domain store
    configEdits,             \* the ConfigEdit objects (editFirewallAddress4, ...)
    g_AllFlattenedPolicies,
    pc,                      \* "idle", or "parsing" inside MSG_MAKE_LIST
    stack_config, strDomainName, strEditName, configEdit,
                             \* the locals of parseFortiGateConfig
    thrown,                  \* the promise of the parse was rejected by a TypeError
    postMessage,             \* the message posted in answer to the message handled
                             \* last, <<>> if none was
    arrayLookupResult, arrayLookupResultEI,
                             \* the two result arrays, locals of the MSG_LOOKUP
                             \* handler: empty once another message is handled
    pushedEI,                \* history: for each element of arrayLookupResult, the
                             \* query line and the row of the iteration that pushed
                             \* it, whether boolSrcMatched or boolBothMatched was
                             \* set, and whether it pushed to arrayLookupResultEI too
    lastMessage,             \* history: e.data of the message handled last, the
                             \* configuration text left out
    parses,                  \* history: the number of MSG_MAKE_LIST handled
    blocks,                  \* history: the number of input blocks of this parse
    lastEdit,                \* history: the edit block parsed last, see ParseLines
    policyCount,             \* history: policy edits begun, by domain and list
    fresh,                   \* history: the same text parsed from the initial state
    flattenedSince,          \* history: MSG_FLATTEN handled since the last MSG_MAKE_LIST
    history,                 \* history: the numbered input blocks of this parse
    call,                    \* history: the function called last outside the worker's
                             \* handlers, with its arguments, <<>> if none was
    result                   \* history: what that call returned

vars == <<g_Domain_Data, configEdits, g_AllFlattenedPolicies, pc, stack_config,
          strDomainName, strEditName, configEdit, thrown, postMessage,
          arrayLookupResult, arrayLookupResultEI, pushedEI, lastMessage, parses, blocks,
          lastEdit, policyCount, fresh, flattenedSince, history, call, result>>

lookupVars == <<arrayLookupResult, arrayLookupResultEI, pushedEI>>

parserVars == <<stack_config, strDomainName, strEditName, configEdit, thrown>>

parseHistory == <<blocks, lastEdit, policyCount, fresh, history>>

MSG_MAKE_LIST == 1

MSG_MADE_LIST == 2

MSG_NORMALIZE == 3

MSG_NORMALIZED == 4

MSG_FLATTEN == 5

MSG_FLATTENED == 6

MSG_LOOKUP == 7

MSG_LOOKEDUP == 8

\* Bounds of the exploration.
MaxParses == 2

MaxBlocks == 5

NoEdit == [handler |-> "none", strDomainName |-> <<>>, sizes |-> <<>>, k |-> 0,
           before |-> <<>>]

Init ==
    /\ g_Domain_Data = <<>>
    /\ configEdits = newConfigEdits
    /\ g_AllFlattenedPolicies = <<>>
    /\ pc = "idle"
    /\ stack_config = <<>>
    /\ strDomainName = <<>>
    /\ strEditName = <<>>
    /\ configEdit = "undefined"
    /\ thrown = FALSE
    /\ postMessage = <<>>
    /\ arrayLookupResult = <<>>
    /\ arrayLookupResultEI = <<>>
    /\ pushedEI = <<>>
    /\ lastMessage = <<>>
    /\ parses = 0
    /\ blocks = 0
    /\ lastEdit = NoEdit
    /\ policyCount = <<>>
    /\ fresh = newParse(<<>>, newConfigEdits)
    /\ flattenedSince = FALSE
    /\ history = <<>>
    /\ call = <<>>
    /\ result = <<>>

\* The iterations of the loop of parseFortiGateConfig over consecutive lines;
\* a TypeError ends the loop.
RECURSIVE parseLines(_, _)
parseLines(p, arrayText) ==
    IF p.thrown \/ arrayText = <<>> THEN p
    ELSE parseLines(parseLine(p, arrayText[1]), Tail(arrayText))

\* The object a `config` frame selects, "undefined" when it is not a
\* configuration of t_FortiGateFirewallObject.
handlerOf(array) ==
    IF array # Undefined /\ configName(array) \in DOMAIN t_FortiGateFirewallObject
    THEN t_FortiGateFirewallObject[configName(array)] ELSE "undefined"

\* The list of the store a policy object appends to.
policyProperty(e) ==
    IF e \in DOMAIN FirewallPolicy THEN "policy" \o FirewallPolicy[e]
    ELSE IF e \in DOMAIN FirewallMulticastPolicy THEN "policy" \o FirewallMulticastPolicy[e]
    ELSE "none"

\* dd[strDomainName][strProperty], the empty list while the domain is missing.
policyList(dd, strName, strProperty) ==
    IF hasDomain(dd, strName) THEN domainData(dd, strName)[strProperty] ELSE <<>>

\* MSG_MAKE_LIST, up to the call of parseFortiGateConfig.
MakeList ==
    /\ pc = "idle"
    /\ parses < MaxParses
    /\ pc' = "parsing"
    /\ g_Domain_Data' = <<>>
    /\ stack_config' = <<>>
    /\ strDomainName' = <<>>
    /\ strEditName' = <<>>
    /\ configEdit' = "undefined"
    /\ thrown' = FALSE
    /\ lastMessage' = <<MSG_MAKE_LIST>>
    /\ parses' = parses + 1
    /\ blocks' = 0
    /\ lastEdit' = NoEdit
    /\ policyCount' = <<>>
    /\ fresh' = newParse(<<>>, newConfigEdits)
    /\ flattenedSince' = FALSE
    /\ history' = <<>>
    /\ postMessage' = <<>>
    /\ arrayLookupResult' = <<>>
    /\ arrayLookupResultEI' = <<>>
    /\ pushedEI' = <<>>
    /\ UNCHANGED <<call, result, configEdits, g_AllFlattenedPolicies>>

\* The next lines of the text: block.lines.  An edit block is `edit`, its `set`
\* lines and `next`; block.sizes are the numbers of members of its lists.
ParseLines(block) ==
    LET parsed(p, e, before) ==
            LET key == <<strDomainName, policyProperty(e)>>
                isPolicyEdit == block.kind = "edit" /\ policyProperty(e) # "none"
                k == IF key \in DOMAIN policyCount THEN policyCount[key] + 1 ELSE 1
            IN  /\ g_Domain_Data' = p.g_Domain_Data
                /\ configEdits' = p.configEdits
                /\ stack_config' = p.stack_config
                /\ strDomainName' = p.strDomainName
                /\ strEditName' = p.strEditName
                /\ configEdit' = p.configEdit
                /\ thrown' = p.thrown
                /\ policyCount' = IF isPolicyEdit THEN (key :> k) @@ policyCount
                                  ELSE policyCount
                /\ lastEdit' = IF isPolicyEdit
                               THEN [handler |-> e, strDomainName |-> strDomainName,
                                     sizes |-> block.sizes, k |-> k, before |-> before]
                               ELSE NoEdit
    IN  /\ pc = "parsing"
        /\ ~thrown
        /\ blocks < MaxBlocks
        /\ parsed(parseLines([g_Domain_Data |-> g_Domain_Data, configEdits |-> configEdits,
                              stack_config |-> stack_config, strDomainName |-> strDomainName,
                              strEditName |-> strEditName, configEdit |-> configEdit,
                              thrown |-> thrown], block.lines),
                  handlerOf(last(stack_config)),
                  policyList(g_Domain_Data, strDomainName,
                             policyProperty(handlerOf(last(stack_config)))))
        /\ blocks' = blocks + 1
        /\ fresh' = parseLines(fresh, block.lines)
        /\ history' = IF block.id # 0 THEN Append(history, block.id) ELSE history
        /\ UNCHANGED <<call, result, g_AllFlattenedPolicies, pc, postMessage, lookupVars, lastMessage,
                       parses, flattenedSince>>

\* The end of the text: the promise resolves and MSG_MADE_LIST is posted, or,
\* after a TypeError, it is rejected and nothing is posted.
MadeList ==
    /\ pc = "parsing"
    /\ pc' = "idle"
    /\ postMessage' = IF thrown THEN postMessage ELSE <<MSG_MADE_LIST>>
    /\ stack_config' = <<>>
    /\ strDomainName' = <<>>
    /\ strEditName' = <<>>
    /\ configEdit' = "undefined"
    /\ UNCHANGED <<call, result, g_Domain_Data, configEdits, g_AllFlattenedPolicies, thrown, lookupVars,
                   lastMessage, parses, parseHistory, flattenedSince>>

\* MSG_NORMALIZE.
Normalize ==
    /\ pc = "idle"
    /\ postMessage' = <<MSG_NORMALIZED, join(allNormalizedPolicies(g_Domain_Data, 1, 1),
                                             <<"\r\n">>)>>
    /\ lastMessage' = <<MSG_NORMALIZE>>
    /\ arrayLookupResult' = <<>>
    /\ arrayLookupResultEI' = <<>>
    /\ pushedEI' = <<>>
    /\ UNCHANGED <<call, result, g_Domain_Data, configEdits, g_AllFlattenedPolicies, pc, parserVars,
                   parses, parseHistory, flattenedSince>>

\* MSG_FLATTEN with e.data[1] and e.data[2].
Flatten(boolAddress, boolService) ==
    /\ pc = "idle"
    /\ g_AllFlattenedPolicies' =
           flattenAllNormalizedPolicies(g_Domain_Data, boolAddress, boolService)
    /\ postMessage' =
           IF \E i \in 1..Len(allNormalizedPolicies(g_Domain_Data, 1, 1)) :
                  flattenThrows(g_Domain_Data,
                                split(allNormalizedPolicies(g_Domain_Data, 1, 1)[i], <<",">>),
                                boolAddress, boolService)
           THEN <<>>
           ELSE <<MSG_FLATTENED, join(g_AllFlattenedPolicies', <<"\r\n">>)>>
    /\ lastMessage' = <<MSG_FLATTEN, boolAddress, boolService>>
    /\ flattenedSince' = TRUE
    /\ arrayLookupResult' = <<>>
    /\ arrayLookupResultEI' = <<>>
    /\ pushedEI' = <<>>
    /\ UNCHANGED <<call, result, g_Domain_Data, configEdits, pc, parserVars, parses, parseHistory>>

\* The two arrays lookUpAddrList has filled, and MSG_LOOKEDUP posted with them.
LookedUp(r) ==
    /\ arrayLookupResult' = r.arrayResult
    /\ arrayLookupResultEI' = r.arrayResultWithoutIneffectual
    /\ pushedEI' = r.pushed
    /\ postMessage' = <<MSG_LOOKEDUP, join(r.arrayResult, <<"\r\n">>),
                        join(r.arrayResultWithoutIneffectual, <<"\r\n">>)>>

\* MSG_LOOKUP with e.data[1], as the array of its lines, and e.data[2].
LookUp(arrayText, boolFqdnAndGeoMatchAll) ==
    /\ pc = "idle"
    /\ LookedUp(lookUpAddrList(g_AllFlattenedPolicies, arrayText, boolFqdnAndGeoMatchAll))
    /\ lastMessage' = <<MSG_LOOKUP, arrayText, boolFqdnAndGeoMatchAll>>
    /\ UNCHANGED <<call, result, g_Domain_Data, configEdits, g_AllFlattenedPolicies, pc, parserVars,
                   parses, parseHistory, flattenedSince>>

(***************************************************************************)
(* The input: blocks of configuration lines.  Every `edit` line is in an   *)
(* edit block, which holds that line, the `set` lines of the lists that    *)
(* have members, further `set` lines, and `next`.                          *)
(***************************************************************************)

line(arrayToken) == join(arrayToken, <<" ">>)

quoted(str) == <<"\"">> \o str \o <<"\"">>

t_ListParameter == <<"srcintf", "dstintf", "srcaddr", "dstaddr", "service">>

lineBlock(kind, arrayLine) == [lines |-> arrayLine, kind |-> kind, sizes |-> <<>>, id |-> 0]

\* The `set` lines of the lists: lists[n] are the members of t_ListParameter[n].
RECURSIVE setLines(_, _)
setLines(lists, n) ==
    IF n > Len(t_ListParameter) THEN <<>>
    ELSE (IF lists[n] = <<>> THEN <<>>
          ELSE <<line(<<<<"set">>, <<t_ListParameter[n]>>,
                        line([i \in 1..Len(lists[n]) |-> quoted(lists[n][i])])>>)>>)
         \o setLines(lists, n + 1)

\* The lines of an edit: `edit`, the lists, the other lines and `next`.
editLines(strName, lists, arrayOtherLine) ==
    <<line(<<<<"edit">>, quoted(strName)>>)>> \o setLines(lists, 1)
    \o arrayOtherLine \o <<<<"next">>>>

editBlock(strName, lists, arrayOtherLine) ==
    [lines |-> editLines(strName, lists, arrayOtherLine),
     kind |-> "edit",
     sizes |-> [n \in 1..Len(t_ListParameter) |-> Len(lists[n])],
     id |-> 0]

ConfigVdom(strName) ==
    lineBlock("config", <<line(<<<<"config">>, <<"vdom">>>>),
                          line(<<<<"edit">>, quoted(strName)>>)>>)

ConfigFirewall(strName) ==
    lineBlock("config", <<line(<<<<"config">>, <<"firewall">>, strName>>)>>)

End == lineBlock("line", <<<<"end">>>>)

\* A block that the history of the parse records under its number.
numbered(n, block) == [block EXCEPT !.id = n]

\* The member lists of the policies of the parser exploration: lists of one
\* and of two members, a member named twice, and lists without members.
ParseLists ==
    LET a == <<"port1">>
        b == <<"port2">>
        x == <<"all">>
        y == <<"h1">>
        s == <<"ALL">>
        t == <<"HTTP">>
    IN  { <<<<a>>, <<b>>, <<x>>, <<y>>, <<s>>>>,
          <<<<a, b>>, <<b>>, <<x, x>>, <<y>>, <<s, t>>>>,
          <<<<a>>, <<a, b>>, <<x>>, <<x, y>>, <<s>>>>,
          <<<<>>, <<b>>, <<x>>, <<y>>, <<s>>>>,
          <<<<a>>, <<b>>, <<x>>, <<>>, <<s>>>>,
          <<<<a>>, <<b>>, <<x>>, <<y>>, <<>>>> }

\* A policy whose name holds a comma.
CommaNamed ==
    numbered(2, editBlock(<<"2">>, <<<<<<"port1">>>>, <<<<"port2">>>>, <<<<"all">>>>, <<<<"h1">>>>,
                         <<<<"ALL">>>>>>,
              <<line(<<<<"set">>, <<"name">>, quoted(<<"a", ",", "b">>)>>)>>))

ParseBlocks ==
    { ConfigFirewall(<<"policy">>), ConfigFirewall(<<"multicast", "-", "policy">>), End }
    \cup { editBlock(<<"1">>, lists, <<>>) : lists \in ParseLists }

\* One configuration, parsed by a worker that has parsed none before, and
\* normalized.
NextParse ==
    \/ parses = 0 /\ MakeList
    \/ \E block \in ParseBlocks : ParseLines(block)
    \/ MadeList
    \/ Normalize

SpecParse == Init /\ [][NextParse]_vars

RowBlocks ==
    { ConfigFirewall(<<"policy">>), End, CommaNamed }
    \cup { numbered(n, editBlock(numStr(n), <<<<<<"port1">>>>, <<<<"port2">>>>, <<<<"all">>>>,
                                              <<<<"h1">>>>, <<<<"ALL">>>>>>, <<>>)) :
               n \in {1, 3} }

\* One configuration of policy stanzas, parsed, normalized and flattened.
NextRows ==
    \/ parses = 0 /\ MakeList
    \/ \E block \in RowBlocks : ParseLines(block)
    \/ MadeList
    \/ Normalize
    \/ \E boolAddress, boolService \in BOOLEAN : Flatten(boolAddress, boolService)

SpecRows == Init /\ [][NextRows]_vars

(***************************************************************************)
(* The policy rows: C1, C3, C4                                             *)
(***************************************************************************)

\* The list of the store the edit block parsed last has appended to.
lastEditList == policyList(g_Domain_Data, lastEdit.strDomainName, policyProperty(lastEdit.handler))

\* The number of rows C1 gives for the edit block parsed last.
lastEditProduct ==
    IF lastEdit.handler \in DOMAIN FirewallPolicy
    THEN lastEdit.sizes[1] * lastEdit.sizes[2] * lastEdit.sizes[3] * lastEdit.sizes[4]
         * lastEdit.sizes[5]
    ELSE lastEdit.sizes[1] * lastEdit.sizes[2] * lastEdit.sizes[3] * lastEdit.sizes[4]

\* C1: a policy edit closed by `next` appends exactly |srcintf| x |dstintf| x
\* |srcaddr| x |dstaddr| x |service| rows to the list of its type (a multicast
\* policy |srcintf| x |dstintf| x |srcaddr| x |dstaddr| rows), the sizes being
\* the numbers of members of its `set` lists with duplicates counted; the rows
\* that were in the list stay, and an empty list gives no row.
C1_RowCount ==
    (lastEdit.handler # "none" /\ ~thrown) =>
        /\ Len(lastEditList) = Len(lastEdit.before) + lastEditProduct
        /\ SubSeq(lastEditList, 1, Len(lastEdit.before)) = lastEdit.before

\* A policy with two source interfaces, a source address named twice and two
\* services has appended its eight rows behind the rows of an earlier policy.
C1_Witness ==
    /\ lastEdit.handler = "editFirewallPolicy4to4"
    /\ lastEdit.sizes = <<2, 1, 2, 1, 2>>
    /\ lastEdit.before # <<>>
    /\ Len(lastEditList) = Len(lastEdit.before) + 8

\* The rows the edit block parsed last has appended.
lastEditRows == SubSeq(lastEditList, Len(lastEdit.before) + 1, Len(lastEditList))

\* C3: within one domain and one type-mode, every row of the k-th policy in
\* configuration order carries POL_LINE = k, whatever the sequence of config
\* stanzas.  The policies of the text have different IDs, and the rows of 22
\* columns are looked at (C4 is about the others).
C3_PolLine ==
    (/\ lastEdit.handler # "none"
     /\ ~thrown
     /\ \A i, j \in 1..Len(history) : history[i] = history[j] => i = j) =>
        \A i \in 1..Len(lastEditRows) :
            Len(split(lastEditRows[i], <<",">>)) = 22
                => at(split(lastEditRows[i], <<",">>), NMCOL_POL_LINE) = numStr(lastEdit.k)

\* The policy rows of the store and of the flattened list.
allRows == allNormalizedPolicies(g_Domain_Data, 1, 1) \o g_AllFlattenedPolicies

\* C4: every row of the normalized and of the flattened output has exactly 22
\* comma-separated columns, with the policy type in POL_TYPE and '-' in LOG.
C4_Columns ==
    \A i \in 1..Len(allRows) :
        /\ Len(split(allRows[i], <<",">>)) = 22
        /\ at(split(allRows[i], <<",">>), NMCOL_POL_TYPE)
               \in {<<"4to4">>, <<"6to6">>, <<"6to4">>, <<"4to6">>, <<"4to4m">>, <<"6to6m">>}
        /\ at(split(allRows[i], <<",">>), NMCOL_LOG) = <<"-">>


(***************************************************************************)
(* The example of README.md                                                *)
(***************************************************************************)

\* A line of the example: its indentation and its words.
indented(n, arrayToken) == [i \in 1..n |-> " "] \o line(arrayToken)

uuidLine ==
    indented(8, <<<<"set">>, <<"uuid">>, <<"xxxxxxxx-xxxx-xxxx-xxxx-xxxxxxxxxxxx">>>>)

\* edit "OBJn" ... next of the example.
readmeAddress(strName, strAddr) ==
    <<indented(4, <<<<"edit">>, quoted(strName)>>),
      uuidLine,
      indented(8, <<<<"set">>, <<"subnet">>, strAddr,
                    <<"255", ".", "255", ".", "255", ".", "255">>>>),
      indented(4, <<<<"next">>>>)>>

\* The example, block by block; the last block is the policy stanza and the
\* `end` of the vdom.  Block 4 is not in README.md: it is the service HTTP as
\* FortiOS defines it.
ReadmeBlocks ==
    { numbered(1, ConfigVdom(<<"VDOM1">>)),
      numbered(2, lineBlock("lines",
          <<line(<<<<"config">>, <<"firewall">>, <<"address">>>>)>>
          \o readmeAddress(<<"OBJ1">>, <<"192", ".", "168", ".", "0", ".", "1">>)
          \o readmeAddress(<<"OBJ2">>, <<"10", ".", "0", ".", "0", ".", "1">>)
          \o readmeAddress(<<"OBJ3">>, <<"10", ".", "1", ".", "1", ".", "1">>)
          \o <<<<"end">>>>)),
      numbered(3, lineBlock("lines",
          <<line(<<<<"config">>, <<"firewall">>, <<"addrgrp">>>>),
            indented(4, <<<<"edit">>, quoted(<<"OGRP1">>)>>),
            uuidLine,
            indented(8, <<<<"set">>, <<"member">>, quoted(<<"OBJ2">>), quoted(<<"OBJ3">>)>>),
            indented(4, <<<<"next">>>>),
            <<"end">>>>)),
      numbered(4, lineBlock("lines",
          <<line(<<<<"config">>, <<"firewall">>, <<"service">>, <<"custom">>>>),
            indented(4, <<<<"edit">>, quoted(<<"HTTP">>)>>),
            indented(8, <<<<"set">>, <<"tcp", "-", "portrange">>, <<"80">>>>),
            indented(4, <<<<"next">>>>),
            <<"end">>>>)),
      numbered(5, lineBlock("lines",
          <<line(<<<<"config">>, <<"firewall">>, <<"policy">>>>),
            indented(4, <<<<"edit">>, quoted(<<"101">>)>>),
            uuidLine,
            indented(8, <<<<"set">>, <<"srcintf">>, quoted(<<"internal1">>)>>),
            indented(8, <<<<"set">>, <<"dstintf">>, quoted(<<"wan2">>)>>),
            indented(8, <<<<"set">>, <<"srcaddr">>, quoted(<<"OBJ1">>)>>),
            indented(8, <<<<"set">>, <<"dstaddr">>, quoted(<<"OGRP1">>)>>),
            indented(8, <<<<"set">>, <<"action">>, <<"accept">>>>),
            indented(8, <<<<"set">>, <<"schedule">>, quoted(<<"always">>)>>),
            indented(8, <<<<"set">>, <<"service">>, quoted(<<"HTTP">>)>>),
            indented(4, <<<<"next">>>>),
            <<"end">>,
            <<"end">>>>)) }

\* Blocks of the example in their order, parsed by a worker that has parsed
\* no text before, normalized and flattened.
NextReadme ==
    \/ parses = 0 /\ MakeList
    \/ \E block \in ReadmeBlocks :
          /\ IF history = <<>> THEN TRUE ELSE block.id > history[Len(history)]
          /\ ParseLines(block)
    \/ MadeList
    \/ Normalize
    \/ \E boolAddress, boolService \in BOOLEAN : Flatten(boolAddress, boolService)

SpecReadme == Init /\ [][NextReadme]_vars

\* A row of the `Flattend Policy` of README.md with its D_ADDR.
readmeRow(strDstAddr) ==
    join(<<<<"VDOM1">>, <<"internal1">>, <<"wan2">>, <<"4to4">>, <<"101">>, <<>>, <<"1">>,
           <<"accept">>, <<"6">>, <<"192", ".", "168", ".", "0", ".", "1", "/", "32">>,
           <<"eq", "/", "any">>, strDstAddr \o <<"/", "32">>, <<"eq", "/", "80">>,
           <<"0", "/", "0">>, <<"-", "/", "-">>, <<"false">>, <<"false">>, <<"false">>,
           <<"enable">>, <<"-">>, <<"always">>, <<>>>>, <<",">>)

ReadmeRows ==
    <<readmeRow(<<"10", ".", "0", ".", "0", ".", "1">>),
      readmeRow(<<"10", ".", "1", ".", "1", ".", "1">>)>>

\* The text of README.md was parsed as a whole, and flattened with both toggles.
readmeFlattened(arrayId) ==
    /\ history = arrayId
    /\ pc = "idle"
    /\ ~thrown
    /\ lastMessage = <<MSG_FLATTEN, TRUE, TRUE>>

\* C2: the example configuration of README.md, parsed and then flattened with
\* the address and the service toggle on, gives exactly the two rows README.md
\* prints.
C2_Readme == readmeFlattened(<<1, 2, 3, 5>>) => g_AllFlattenedPolicies = ReadmeRows

\* With the service HTTP defined in the text, the rows are those of README.md.
C2_WithService == readmeFlattened(<<1, 2, 3, 4, 5>>) => g_AllFlattenedPolicies = ReadmeRows

C2_WithServiceWitness ==
    readmeFlattened(<<1, 2, 3, 4, 5>>) /\ g_AllFlattenedPolicies = ReadmeRows

(***************************************************************************)
(* The input of the lookup: one block is the text of one domain, with its  *)
(* address objects, the service ALL and one stanza of policies.            *)
(***************************************************************************)

\* A policy of a lookup text.  srcaddr is negated where boolNegate is set.
policyLines(strName, strAction, strSrcIntf, strSrcAddr, boolNegate, strStatus) ==
    editLines(strName,
              <<<<strSrcIntf>>, <<<<"port2">>>>, <<strSrcAddr>>, <<<<"all">>>>, <<<<"ALL">>>>>>,
              <<line(<<<<"set">>, <<"action">>, strAction>>)>>
              \o (IF boolNegate
                  THEN <<line(<<<<"set">>, <<"srcaddr", "-", "negate">>, <<"enable">>>>)>>
                  ELSE <<>>)
              \o (IF strStatus # <<>>
                  THEN <<line(<<<<"set">>, <<"status">>, strStatus>>)>> ELSE <<>>))

\* The objects of a domain and the head of its policy stanza.
domainLines(strVdom, strAddress, strSubnet, arrayHost, strPolicy) ==
    ConfigVdom(strVdom).lines
    \o <<line(<<<<"config">>, <<"firewall">>, strAddress>>)>>
    \o <<line(<<<<"edit">>, quoted(<<"all">>)>>), <<"next">>>>
    \o <<line(<<<<"edit">>, quoted(<<"h1">>)>>),
         line(<<<<"set">>, strSubnet>> \o arrayHost),
         <<"next">>,
         <<"end">>>>
    \o <<line(<<<<"config">>, <<"firewall">>, <<"service">>, <<"custom">>>>),
         line(<<<<"edit">>, quoted(<<"ALL">>)>>),
         line(<<<<"set">>, <<"protocol">>, <<"IP">>>>),
         <<"next">>,
         <<"end">>>>
    \o <<line(<<<<"config">>, <<"firewall">>, strPolicy>>)>>

Host4 == <<"10", ".", "0", ".", "0", ".", "1">>

Other4 == <<"10", ".", "0", ".", "0", ".", "2">>

Host6 == <<":", ":", "1", "/", "128">>

domain4(n, strVdom, arrayPolicyLine) ==
    numbered(n, lineBlock("lines",
        domainLines(strVdom, <<"address">>, <<"subnet">>,
                    <<Host4, <<"255", ".", "255", ".", "255", ".", "255">>>>, <<"policy">>)
        \o arrayPolicyLine \o <<<<"end">>, <<"end">>>>))

domain6(n, strVdom, arrayPolicyLine) ==
    numbered(n, lineBlock("lines",
        domainLines(strVdom, <<"address6">>, <<"ip6">>, <<Host6>>, <<"policy6">>)
        \o arrayPolicyLine \o <<<<"end">>, <<"end">>>>))

LookUpBlocks ==
    { domain4(1, <<"V1">>,
          policyLines(<<"1">>, <<"accept">>, <<"port1">>, <<"h1">>, FALSE, <<>>)
          \o policyLines(<<"2">>, <<"deny">>, <<"port1">>, <<"all">>, FALSE, <<>>)
          \o policyLines(<<"3">>, <<"accept">>, <<"port1">>, <<"all">>, FALSE, <<>>)
          \o policyLines(<<"4">>, <<"accept">>, <<"port3">>, <<"all">>, FALSE, <<>>)),
      domain4(2, <<"V2">>,
          policyLines(<<"1">>, <<"accept">>, <<"port1">>, <<"all">>, FALSE, <<>>)),
      domain4(3, <<"V3">>,
          policyLines(<<"1">>, <<"accept">>, <<"port1">>, <<"h1">>, TRUE, <<>>)
          \o policyLines(<<"2">>, <<"accept">>, <<"port1">>, <<"all">>, FALSE,
                         <<"disable">>)),
      domain6(4, <<"V4">>,
          policyLines(<<"1">>, <<"deny">>, <<"port1">>, <<"all">>, FALSE, <<>>)
          \o policyLines(<<"2">>, <<"accept">>, <<"port1">>, <<"h1">>, TRUE, <<>>)) }

\* The lookup lists: a source, a destination, both, two sources, an IPv6 source.
LookUpLists ==
    { <<Host4>>, <<Other4>>, <<<<",">> \o Host4>>, <<Host4 \o <<",">> \o Host4>>,
      <<Host4, Other4>>, <<Host6>> }

\* Texts of domains, parsed by a worker that has parsed no text before,
\* flattened and looked up.
NextLookUp ==
    \/ parses = 0 /\ MakeList
    \/ \E block \in LookUpBlocks :
          /\ IF history = <<>> THEN TRUE ELSE block.id > history[Len(history)]
          /\ ParseLines(block)
    \/ MadeList
    \/ \E boolAddress, boolService \in BOOLEAN : Flatten(boolAddress, boolService)
    \/ \E arrayText \in LookUpLists, boolFqdnAndGeoMatchAll \in BOOLEAN :
          LookUp(arrayText, boolFqdnAndGeoMatchAll)

SpecLookUp == Init /\ [][NextLookUp]_vars

(***************************************************************************)
(* The lookup: C5, C6, C7, C8                                              *)
(***************************************************************************)

\* The columns of the row that pushed the i-th element of arrayLookupResult.
pushedToken(i) == split(pushedEI[i].strLine, <<",">>)

\* The catch-all deny: ACTION and STATUS, PROT = ip, and the addresses of the
\* family for the source and the destination.
isCatchAllDeny(arrayToken) ==
    /\ at(arrayToken, NMCOL_ACTION) = <<"deny">>
    /\ at(arrayToken, NMCOL_STATUS) = <<"enable">>
    /\ at(arrayToken, NMCOL_PROTOCOL) = <<"ip">>
    /\ \/ /\ at(arrayToken, NMCOL_POL_TYPE) \in {<<"4to4">>, <<"4to4m">>}
          /\ at(arrayToken, NMCOL_SRC_ADDR) = IPV4_ANY
          /\ at(arrayToken, NMCOL_DST_ADDR) = IPV4_ANY
       \/ /\ at(arrayToken, NMCOL_POL_TYPE) \in {<<"6to6">>, <<"6to6m">>}
          /\ at(arrayToken, NMCOL_SRC_ADDR) = IPV6_ANY
          /\ at(arrayToken, NMCOL_DST_ADDR) = IPV6_ANY
       \/ /\ at(arrayToken, NMCOL_POL_TYPE) = <<"4to6">>
          /\ at(arrayToken, NMCOL_SRC_ADDR) = IPV4_ANY
          /\ at(arrayToken, NMCOL_DST_ADDR) = IPV6_ANY

\* Two rows have the same (POL_TYPE, S_INTF, D_INTF).
sameKey(arrayTokenA, arrayTokenB) ==
    /\ at(arrayTokenA, NMCOL_POL_TYPE) = at(arrayTokenB, NMCOL_POL_TYPE)
    /\ at(arrayTokenA, NMCOL_SRC_INTF) = at(arrayTokenB, NMCOL_SRC_INTF)
    /\ at(arrayTokenA, NMCOL_DST_INTF) = at(arrayTokenB, NMCOL_DST_INTF)

\* The elements of arrayLookupResult, up to the n-th, whose iteration pushed
\* to arrayResultWithoutIneffectual too.
RECURSIVE pushedWithout(_)
pushedWithout(n) ==
    IF n = 0 THEN <<>>
    ELSE pushedWithout(n - 1)
         \o (IF pushedEI[n].without THEN <<arrayLookupResult[n]>> ELSE <<>>)

\* The matched row i, seen earlier in the scan of the matched row j, met the
\* catch-all deny with the key of j.
catchAllDenyBefore(i, j) ==
    /\ i < j
    /\ pushedEI[i].scan = pushedEI[j].scan
    /\ isCatchAllDeny(pushedToken(i))
    /\ sameKey(pushedToken(i), pushedToken(j))

\* C5: in the scan of the rows for one lookup query, once a matched row with
\* ACTION = deny, STATUS = enable, PROT = ip and the catch-all addresses of its
\* family has been seen, every later matched row with the same (POL_TYPE,
\* S_INTF, D_INTF) is in the list of all matches and not in the list without
\* the ineffectual rows.
C5_LaterRows ==
    /\ Len(pushedEI) = Len(arrayLookupResult)
    /\ arrayLookupResultEI = pushedWithout(Len(pushedEI))
    /\ \A i, j \in 1..Len(pushedEI) :
          catchAllDenyBefore(i, j) =>
              /\ endsWith(arrayLookupResult[j], <<",">> \o pushedEI[j].strLine)
              /\ ~pushedEI[j].without

\* An accept row was matched behind the catch-all deny of its key, and a row
\* of another key was pushed to both lists.
C5_Witness ==
    /\ \E i, j \in 1..Len(pushedEI) :
          /\ catchAllDenyBefore(i, j)
          /\ at(pushedToken(j), NMCOL_ACTION) = <<"accept">>
          /\ ~pushedEI[j].without
    /\ arrayLookupResultEI # <<>>
    /\ Len(arrayLookupResultEI) < Len(arrayLookupResult)

\* The condition of the code for the matched row i, seen earlier in the scan
\* of the matched row j and of its key: the catch-all deny, or a deny of PROT =
\* ip to the catch-all destination matched by its source.
ineffectualBefore(i, j) ==
    /\ i < j
    /\ pushedEI[i].scan = pushedEI[j].scan
    /\ isPolicyIneffectual(pushedToken(i), pushedEI[i].from)
    /\ sameKey(pushedToken(i), pushedToken(j))

\* C6: a matched row is missing from the list without the ineffectual rows if
\* and only if an earlier matched row of the same scan met the catch-all deny
\* trigger and has the same (POL_TYPE, S_INTF, D_INTF).
C6_Isolation ==
    \A j \in 1..Len(pushedEI) :
        (~pushedEI[j].without) <=> (\E i \in 1..Len(pushedEI) : ineffectualBefore(i, j))

\* C7: a catch-all deny matched in one domain never leaves a matched row of
\* another domain out of the list without the ineffectual rows: an enabled row
\* that is no trigger itself is left out only behind a trigger of its own
\* domain.
C7_DomainScope ==
    \A j \in 1..Len(pushedEI) :
        (/\ ~pushedEI[j].without
         /\ at(pushedToken(j), NMCOL_STATUS) = <<"enable">>
         /\ ~isPolicyIneffectual(pushedToken(j), pushedEI[j].from)) =>
            \E i \in 1..Len(pushedEI) :
                /\ ineffectualBefore(i, j)
                /\ at(pushedToken(i), NMCOL_DOM_NAME) = at(pushedToken(j), NMCOL_DOM_NAME)

\* The row is an element of the list of all matches.
isLookedUp(strLine) == \E k \in 1..Len(pushedEI) : pushedEI[k].strLine = strLine

\* The lookup address is within the stored address of its family: the stored
\* IPv6 addresses are the catch-all and the lookup address itself.
isWithinStored(strLookupAddr, strStored) ==
    IF strLookupAddr = Host6
    THEN strStored = IPV6_ANY
         \/ strStored = getIPv6FullRepresentedAddrWithPrefixLength(Host6)
    ELSE strStored = IPV4_ANY
         \/ isIPv4WithPrefixLengthIncludedInSegment(strLookupAddr \o <<"/", "32">>, strStored)

\* The rows C8 is about, for a lookup address: 4to4 or 6to6 rows of its
\* family whose address in the column is in CIDR notation.
isNegateRow(arrayToken, strLookupAddr, intColumn) ==
    /\ Len(arrayToken) = 22
    /\ at(arrayToken, NMCOL_POL_TYPE) = IF strLookupAddr = Host6 THEN <<"6to6">> ELSE <<"4to4">>
    /\ indexOf(at(arrayToken, intColumn), <<"/">>) # -1
    /\ at(arrayToken, NMCOL_SERVICE_DSTADDR) \in {<<"-">>, <<"0", "/", "0">>}

\* C8 for the lookup of one address in one column.
negateHonoured(strLookupAddr, intColumn, intNegateColumn) ==
    \A i \in 1..Len(g_AllFlattenedPolicies) :
        isNegateRow(split(g_AllFlattenedPolicies[i], <<",">>), strLookupAddr, intColumn) =>
            (isLookedUp(g_AllFlattenedPolicies[i])
             <=> (isWithinStored(strLookupAddr,
                                 at(split(g_AllFlattenedPolicies[i], <<",">>), intColumn))
                  # (at(split(g_AllFlattenedPolicies[i], <<",">>), intNegateColumn)
                     = <<"true">>)))

\* C8: for a 4to4 or 6to6 row of a policy with srcaddr-negate (dstaddr-negate)
\* enabled, a lookup of a source (destination) alone matches the row if and
\* only if the address is not within the stored address; without the negate it
\* matches if and only if the address is within it.
C8_Negate ==
    \A strLookupAddr \in {Host4, Other4, Host6} :
        /\ (Len(lastMessage) = 3 /\ lastMessage[1] = MSG_LOOKUP
            /\ lastMessage[2] = <<strLookupAddr>>) =>
                negateHonoured(strLookupAddr, NMCOL_SRC_ADDR, NMCOL_SRCADDR_NEGATE)
        /\ (Len(lastMessage) = 3 /\ lastMessage[1] = MSG_LOOKUP
            /\ lastMessage[2] = <<<<",">> \o strLookupAddr>>) =>
                negateHonoured(strLookupAddr, NMCOL_DST_ADDR, NMCOL_DSTADDR_NEGATE)

(***************************************************************************)
(* The worker and its messages: C9, C10                                    *)
(***************************************************************************)

\* The blocks of the texts the worker parses: the head of a policy stanza and
\* a policy; a text has MaxWorkerBlocks of them at most.
WorkerBlocks ==
    { ConfigFirewall(<<"policy">>),
      editBlock(<<"1">>, <<<<<<"port1">>>>, <<<<"port2">>>>, <<<<"all">>>>, <<<<"all">>>>,
                           <<<<"ALL">>>>>>, <<>>) }

MaxWorkerBlocks == 2

\* A geography matches every row when FQDN and geography match all.
WorkerLookUpLists == { <<<<"geo", ":", "JP">>>> }

\* The messages of the front end, in any order.
Next ==
    \/ MakeList
    \/ \E block \in WorkerBlocks : blocks < MaxWorkerBlocks /\ ParseLines(block)
    \/ MadeList
    \/ Normalize
    \/ \E boolAddress, boolService \in BOOLEAN : Flatten(boolAddress, boolService)
    \/ \E arrayText \in WorkerLookUpLists, boolFqdnAndGeoMatchAll \in BOOLEAN :
          LookUp(arrayText, boolFqdnAndGeoMatchAll)

Spec == Init /\ [][Next]_vars

\* C9: a MSG_LOOKUP handled when no MSG_FLATTEN was handled since the latest
\* MSG_MAKE_LIST runs against an empty flattened list and gives two empty
\* results, also when an earlier text was parsed and flattened before that
\* MSG_MAKE_LIST.
C9_EmptyList ==
    (/\ Len(lastMessage) = 3
     /\ lastMessage[1] = MSG_LOOKUP
     /\ parses > 0
     /\ ~flattenedSince) =>
        /\ g_AllFlattenedPolicies = <<>>
        /\ arrayLookupResult = <<>>
        /\ arrayLookupResultEI = <<>>

\* C10: after MSG_MAKE_LIST is handled, the domain store is the store that the
\* parse of the same text from the initial state of the program gives.
C10_Fresh ==
    (pc = "idle" /\ parses > 0) => g_Domain_Data = fresh.g_Domain_Data

(***************************************************************************)
(* The responses of the worker and the end of the parse: C11, C12          *)
(***************************************************************************)

\* C11: when the worker has handled a message, it has posted the response of
\* that message (MSG_MADE_LIST, MSG_NORMALIZED, MSG_FLATTENED, MSG_LOOKEDUP,
\* each the number of its message plus one) and no other, for any sequence
\* of messages.
C11_Responses ==
    (pc = "idle" /\ lastMessage # <<>>) =>
        /\ postMessage # <<>>
        /\ postMessage[1] = lastMessage[1] + 1

\* C12: parseFortiGateConfig never raises, whatever the lines of the text.
C12_NeverRaises == ~thrown

(***************************************************************************)
(* Stanzas the parser does not recognize: C13                              *)
(***************************************************************************)

\* The lines of the texts with a stanza that is not recognized: `config
\* tagging`, alone or inside an edit of `config firewall address`.
NestedLines ==
    { line(<<<<"config">>, <<"firewall">>, <<"address">>>>),
      line(<<<<"config">>, <<"tagging">>>>),
      line(<<<<"edit">>, quoted(<<"h1">>)>>),
      line(<<<<"set">>, <<"subnet">>, <<"10", ".", "0", ".", "0", ".", "1">>,
             <<"255", ".", "255", ".", "255", ".", "255">>>>),
      <<"next">>,
      <<"end">> }

\* One text, line by line, parsed by a worker that has parsed none before.
NextNested ==
    \/ parses = 0 /\ MakeList
    \/ \E strLine \in NestedLines : ParseLines(lineBlock("line", <<strLine>>))
    \/ MadeList
    \/ Normalize

SpecNested == Init /\ [][NextNested]_vars

\* The innermost open `config` frame is not one of the recognized stanzas, and
\* the line parsed in this step is none that opens or closes a frame.
inUnrecognizedStanza ==
    /\ pc = "parsing"
    /\ pc' = "parsing"
    /\ blocks' = blocks + 1
    /\ ~thrown'
    /\ stack_config # <<>>
    /\ handlerOf(last(stack_config)) = "undefined"
    /\ stack_config' = stack_config

\* C13: an `edit`, `set` or `next` line of a stanza that is not recognized
\* invokes no begin, set or end of a handler and leaves the store as it is,
\* also when the stanza is inside an open edit of a recognized stanza.
C13_Skipped ==
    [][inUnrecognizedStanza =>
           /\ g_Domain_Data' = g_Domain_Data
           /\ configEdits' = configEdits
           /\ strEditName' = strEditName]_vars

(***************************************************************************)
(* Groups: C14                                                             *)
(***************************************************************************)

\* edit "name", set subnet, next.
addressLines(strName, strAddr) ==
    <<line(<<<<"edit">>, quoted(strName)>>),
      line(<<<<"set">>, <<"subnet">>, strAddr, <<"255", ".", "255", ".", "255", ".", "255">>>>),
      <<"next">>>>

\* A stanza of addresses, from `config firewall address` to `end`.
addressStanza(arrayLine) ==
    lineBlock("lines", <<line(<<<<"config">>, <<"firewall">>, <<"address">>>>)>>
                       \o arrayLine \o <<<<"end">>>>)

\* The groups of the texts, by the number of the block that defines each: g1
\* of objects (c has the value of a, or none), g2 of a group and an object,
\* g3 with a member that is defined nowhere and named as a property every
\* object has, and g1 again, of a group.
t_Group ==
    (3 :> [name |-> <<"g1">>, member |-> <<<<"a">>, <<"b">>, <<"c">>>>]) @@
    (4 :> [name |-> <<"g2">>, member |-> <<<<"g1">>, <<"b">>, <<"a">>>>]) @@
    (5 :> [name |-> <<"g3">>, member |-> <<<<"a">>, <<"toString">>>>]) @@
    (6 :> [name |-> <<"g1">>, member |-> <<<<"g2">>, <<"x">>>>])

\* A stanza of one group, from `config firewall addrgrp` to `end`.
groupStanza(group) ==
    lineBlock("lines",
        <<line(<<<<"config">>, <<"firewall">>, <<"addrgrp">>>>),
          line(<<<<"edit">>, quoted(group.name)>>),
          line(<<<<"set">>, <<"member">>,
                 line([i \in 1..Len(group.member) |-> quoted(group.member[i])])>>),
          <<"next">>,
          <<"end">>>>)

GroupBlocks ==
    { numbered(1, addressStanza(addressLines(<<"a">>, Host4) \o addressLines(<<"b">>, Other4))),
      numbered(2, addressStanza(addressLines(<<"a">>, <<"10", ".", "0", ".", "0", ".", "3">>)
                                \o addressLines(<<"c">>, Host4))) }
    \cup { numbered(n, groupStanza(t_Group[n])) : n \in DOMAIN t_Group }

\* One text of stanzas of addresses and of groups in any order, parsed by a
\* worker that has parsed none before.
NextGroups ==
    \/ parses = 0 /\ MakeList
    \/ \E block \in GroupBlocks : ParseLines(block)
    \/ MadeList
    \/ Normalize

SpecGroups == Init /\ [][NextGroups]_vars

\* The table of the domain without a name, empty while the domain is missing.
tableOf(dd, strProperty) ==
    IF hasDomain(dd, <<>>) THEN domainData(dd, <<>>)[strProperty] ELSE <<>>

\* The values of the members found in a table, in member order.
RECURSIVE memberValues(_, _)
memberValues(table, arrayMember) ==
    IF arrayMember = <<>> THEN <<>>
    ELSE (IF arrayMember[1] \in DOMAIN table THEN table[arrayMember[1]].value ELSE <<>>)
         \o memberValues(table, Tail(arrayMember))

\* A list with its duplicates removed, the first occurrence kept.
RECURSIVE firstOccurrences(_, _)
firstOccurrences(array, seen) ==
    IF array = <<>> THEN <<>>
    ELSE IF array[1] \in seen THEN firstOccurrences(Tail(array), seen)
    ELSE <<array[1]>> \o firstOccurrences(Tail(array), seen \cup {array[1]})

\* The value list C14 gives a group, from the tables of a store.
groupValues(dd, arrayMember) ==
    firstOccurrences(memberValues(tableOf(dd, "address4"), arrayMember)
                     \o memberValues(tableOf(dd, "addrgrp4"), arrayMember), {})

\* The step parses the stanza of the group of block n.
isGroupStep(n) == history' = Append(history, n)

\* The group of block n is stored in this step with the values of its members
\* as the tables stand before the step, and every other group stored before
\* the step keeps its values.
groupFixed(n) ==
    /\ t_Group[n].name \in DOMAIN tableOf(g_Domain_Data', "addrgrp4")
    /\ tableOf(g_Domain_Data', "addrgrp4")[t_Group[n].name].value
           = groupValues(g_Domain_Data, t_Group[n].member)
    /\ \A strName \in DOMAIN tableOf(g_Domain_Data, "addrgrp4") \ {t_Group[n].name} :
           /\ strName \in DOMAIN tableOf(g_Domain_Data', "addrgrp4")
           /\ tableOf(g_Domain_Data', "addrgrp4")[strName]
                  = tableOf(g_Domain_Data, "addrgrp4")[strName]

\* No group changes in a step that parses no stanza of a group.
groupsKept ==
    (pc = "parsing" /\ \A n \in DOMAIN t_Group : ~isGroupStep(n)) =>
        tableOf(g_Domain_Data', "addrgrp4") = tableOf(g_Domain_Data, "addrgrp4")

\* C14: the value list of a group is fixed when its `next` is processed: the
\* values of its members found in the object table, then of those found in the
\* group table, in member order and without duplicates, as the tables stand at
\* that moment; a member defined later or not at all contributes nothing, and
\* a later definition of a member changes no stored group.
C14_GroupFixed ==
    [][/\ \A n \in DOMAIN t_Group : (~thrown /\ isGroupStep(n)) => groupFixed(n)
       /\ groupsKept]_vars

\* C14 for the groups whose members are no inherited properties of the tables.
C14_OrdinaryNames ==
    [][/\ \A n \in DOMAIN t_Group \ {5} : (~thrown /\ isGroupStep(n)) => groupFixed(n)
       /\ groupsKept]_vars

\* g2 was stored from the group g1 and the objects a and b, one value of g1
\* being that of a; then a was defined again and g1 as well.
C14_OrdinaryNamesWitness ==
    /\ history = <<1, 3, 4, 2, 6>>
    /\ tableOf(g_Domain_Data, "addrgrp4")[<<"g2">>].value
           = << Other4 \o <<"/", "32">>, Host4 \o <<"/", "32">> >>
    /\ tableOf(g_Domain_Data, "addrgrp4")[<<"g1">>].value
           = tableOf(g_Domain_Data, "addrgrp4")[<<"g2">>].value

(***************************************************************************)
(* Address ranges: C15                                                     *)
(***************************************************************************)

\* The start-ip and end-ip values of the texts.
RangeAddrs == { Host4, Other4, <<"9", ".", "255", ".", "255", ".", "255">> }

\* edit "name", set type iprange, set start-ip, set end-ip, next.
rangeLines(strName, strStart, strEnd) ==
    <<line(<<<<"edit">>, quoted(strName)>>),
      line(<<<<"set">>, <<"type">>, <<"iprange">>>>),
      line(<<<<"set">>, <<"start", "-", "ip">>, strStart>>),
      line(<<<<"set">>, <<"end", "-", "ip">>, strEnd>>),
      <<"next">>>>

RangeBlocks ==
    { ConfigFirewall(<<"address">>), End }
    \cup { lineBlock("lines", rangeLines(<<"r">> \o strStart, strStart, strEnd)) :
               strStart \in RangeAddrs, strEnd \in RangeAddrs }

\* One text of address ranges, parsed by a worker that has parsed none before.
NextRanges ==
    \/ parses = 0 /\ MakeList
    \/ \E block \in RangeBlocks : ParseLines(block)
    \/ MadeList
    \/ Normalize

SpecRanges == Init /\ [][NextRanges]_vars

\* The number of an IPv4 address of four decimal octets.
ipv4Number(strIPv4Addr) ==
    ((parseInt(<<strIPv4Addr[1]>>) * 256 + parseInt(<<strIPv4Addr[3]>>)) * 256
        + parseInt(<<strIPv4Addr[5]>>)) * 256 + parseInt(<<strIPv4Addr[7]>>)

\* The stored value is a range token.
isRangeToken(strValue) == indexOf(strValue, <<"-">>) >= 0

\* start <= end in a range token.
isOrderedRange(strValue) ==
    ipv4Number(substring(strValue, 0, indexOf(strValue, <<"-">>)))
        <= ipv4Number(substringFrom(strValue, indexOf(strValue, <<"-">>) + 1))

\* C15: every IPv4 range token stored in the address table has the form
\* start-end with start <= end, for every pair of start-ip and end-ip of the
\* configuration.
C15_RangeOrdered ==
    \A strName \in DOMAIN tableOf(g_Domain_Data, "address4") :
        \A i \in 1..Len(tableOf(g_Domain_Data, "address4")[strName].value) :
            isRangeToken(tableOf(g_Domain_Data, "address4")[strName].value[i]) =>
                isOrderedRange(tableOf(g_Domain_Data, "address4")[strName].value[i])

(***************************************************************************)
(* IPv6 literals that cannot be parsed: C16                                *)
(***************************************************************************)

\* An IPv6 address the parser accepts.
Valid6 == <<"2001", ":", "db8", ":", ":", "1">>

\* IPv6 addresses that cannot be parsed: two hextets without a double colon,
\* and a hextet of five digits.
Unparsable6 == { <<"2001", ":", "db8">>, <<"12345", ":", ":", "1">> }

\* edit "name", set ip6 literal/64, next.
prefixLines(strName, strIp6) ==
    <<line(<<<<"edit">>, quoted(strName)>>),
      line(<<<<"set">>, <<"ip6">>, strIp6 \o <<"/", "64">>>>),
      <<"next">>>>

Address6Blocks ==
    { ConfigFirewall(<<"address6">>), End }
    \cup { lineBlock("lines", prefixLines(<<"p">> \o strIp6, strIp6)) :
               strIp6 \in {Valid6} \cup Unparsable6 }
    \cup { lineBlock("lines", rangeLines(<<"r">> \o strStart \o <<"-">> \o strEnd,
                                         strStart, strEnd)) :
               strStart \in {Valid6} \cup Unparsable6, strEnd \in {Valid6} \cup Unparsable6 }

\* One text of IPv6 addresses, parsed by a worker that has parsed none before.
NextAddress6 ==
    \/ parses = 0 /\ MakeList
    \/ \E block \in Address6Blocks : ParseLines(block)
    \/ MadeList
    \/ Normalize

SpecAddress6 == Init /\ [][NextAddress6]_vars

\* The names of the entries whose literal cannot be parsed.
unparsableNames ==
    { <<"p">> \o strIp6 : strIp6 \in Unparsable6 }
    \cup { <<"r">> \o strStart \o <<"-">> \o strEnd :
               strStart \in Unparsable6, strEnd \in {Valid6} \cup Unparsable6 }
    \cup { <<"r">> \o Valid6 \o <<"-">> \o strEnd : strEnd \in Unparsable6 }

\* C16: the value stored for a firewall address6 entry (ipprefix or iprange)
\* whose IPv6 literal cannot be parsed is the literal token undefined.
C16_Undefined ==
    \A strName \in DOMAIN tableOf(g_Domain_Data, "address6") :
        strName \in unparsableNames =>
            tableOf(g_Domain_Data, "address6")[strName].value = <<<<"undefined">>>>

(***************************************************************************)
(* makeIPv4SubnetFromRange: C17                                            *)
(***************************************************************************)

\* toIPv4AddrString: the four octets of the number, joined by '.'.
toIPv4AddrString(intIPv4AddrInteger) ==
    <<digits((intIPv4AddrInteger \div 16777216) % 256), ".",
      digits((intIPv4AddrInteger \div 65536) % 256), ".",
      digits((intIPv4AddrInteger \div 256) % 256), ".",
      digits(intIPv4AddrInteger % 256)>>

\* intSegSize in the iteration i of the loop: 2147483648 halved i - 1 times.
intSegSize(i) == 2 ^ (32 - i)

\* Round up to the start of the next segment.
intBlockStart(intStartAddr, i) ==
    ((intStartAddr + intSegSize(i) - 1) \div intSegSize(i)) * intSegSize(i)

\* Round down to the end of the previous segment.
intBlockEnd(intEndAddr, i) ==
    (((intEndAddr + 1) \div intSegSize(i)) * intSegSize(i)) - 1

\* The while loop with only its first iteration.
segmentsOnce(intSegStart, intEnd, i) ==
    IF intSegStart + intSegSize(i) - 1 <= intEnd
    THEN <<toIPv4AddrString(intSegStart) \o <<"/", digits(i)>>>>
    ELSE <<>>

\* The while loop: the subnets pushed for the segments from intSegStart that
\* end at or before the end of the block.
RECURSIVE segments(_, _, _)
segments(intSegStart, intEnd, i) ==
    IF intSegStart + intSegSize(i) - 1 <= intEnd
    THEN <<toIPv4AddrString(intSegStart) \o <<"/", digits(i)>>>>
         \o segments(intSegStart + intSegSize(i), intEnd, i)
    ELSE <<>>

\* intSegStart when the while loop ends.
RECURSIVE segmentsEnd(_, _, _)
segmentsEnd(intSegStart, intEnd, i) ==
    IF intSegStart + intSegSize(i) - 1 <= intEnd
    THEN segmentsEnd(intSegStart + intSegSize(i), intEnd, i)
    ELSE intSegStart

\* The iterations from i on in which intBlockStart <= intBlockEnd.  The
\* addresses of the model are below 2^30, where the iteration 1 (intSegSize
\* 2147483648) computes intBlockStart 0 or 2147483648 and intBlockEnd -1.
blockIterations(i, intStartAddr, intEndAddr) ==
    {j \in i..32 : j > 1 /\ intBlockStart(intStartAddr, j) <= intBlockEnd(intEndAddr, j)}

RECURSIVE makeIPv4SubnetFromRangeFrom(_, _, _)
RECURSIVE makeIPv4SubnetFromRangeAt(_, _, _)

\* The iterations i..32 of the for loop and what they push to arraySave, the
\* recursive calls included: an iteration with intBlockStart > intBlockEnd
\* only halves intSegSize.
makeIPv4SubnetFromRangeFrom(i, intStartAddr, intEndAddr) ==
    IF blockIterations(i, intStartAddr, intEndAddr) = {} THEN <<>>
    ELSE makeIPv4SubnetFromRangeAt(
             CHOOSE j \in blockIterations(i, intStartAddr, intEndAddr) :
                 \A k \in blockIterations(i, intStartAddr, intEndAddr) : j <= k,
             intStartAddr, intEndAddr)

\* An iteration i with intBlockStart <= intBlockEnd, and those after it.
makeIPv4SubnetFromRangeAt(i, intStartAddr, intEndAddr) ==
    (IF intStartAddr < intBlockStart(intStartAddr, i)
     THEN makeIPv4SubnetFromRangeFrom(1, intStartAddr, intBlockStart(intStartAddr, i) - 1)
     ELSE <<>>)
    \o segments(intBlockStart(intStartAddr, i), intBlockEnd(intEndAddr, i), i)
    \o (IF intBlockEnd(intEndAddr, i) < intEndAddr
        THEN makeIPv4SubnetFromRangeFrom(1, intBlockEnd(intEndAddr, i) + 1, intEndAddr)
        ELSE <<>>)
    \o makeIPv4SubnetFromRangeFrom(i + 1,
           segmentsEnd(intBlockStart(intStartAddr, i), intBlockEnd(intEndAddr, i), i),
           IF intBlockEnd(intEndAddr, i) < intEndAddr
           THEN intBlockEnd(intEndAddr, i) ELSE intEndAddr)

\* arraySave after makeIPv4SubnetFromRange(intStartAddr, intEndAddr, []).
makeIPv4SubnetFromRange(intStartAddr, intEndAddr) ==
    makeIPv4SubnetFromRangeFrom(1, intStartAddr, intEndAddr)

\* 10.0.0.0, and the offsets of the range ends of the model from it.
RangeBase == 167772160

RangeOffsets == (0..9) \cup (254..257)

\* A call of makeIPv4SubnetFromRange with an empty arraySave, the first call of
\* a function outside the worker's handlers.
CallMakeIPv4SubnetFromRange(intStartAddr, intEndAddr) ==
    /\ call = <<>>
    /\ call' = <<"makeIPv4SubnetFromRange", intStartAddr, intEndAddr>>
    /\ result' = makeIPv4SubnetFromRange(intStartAddr, intEndAddr)
    /\ UNCHANGED <<g_Domain_Data, configEdits, g_AllFlattenedPolicies, pc, parserVars,
                   lookupVars, postMessage, lastMessage, parses, parseHistory,
                   flattenedSince>>

NextSubnet ==
    \E a \in RangeOffsets, b \in RangeOffsets :
        CallMakeIPv4SubnetFromRange(RangeBase + a, RangeBase + b)

SpecSubnet == Init /\ [][NextSubnet]_vars

\* The first address and the prefix length of a subnet a.b.c.d/p.
subnetStart(strSubnet) == ipv4Number(strSubnet)

subnetLength(strSubnet) == parseInt(<<strSubnet[9]>>)

\* The addresses of a subnet.
subnetAddrs(strSubnet) ==
    subnetStart(strSubnet)..(subnetStart(strSubnet) + 2 ^ (32 - subnetLength(strSubnet)) - 1)

isRangeCall == call # <<>> /\ call[1] = "makeIPv4SubnetFromRange" /\ call[2] <= call[3]

Any4 == <<"0", ".", "0", ".", "0", ".", "0">>

\* The test tokens a/p and the segments c/q of the model.
TestTokens ==
    { strAddr \o <<"/", digits(p)>> :
        strAddr \in { Any4, Host4, Other4,
                      <<"10", ".", "0", ".", "0", ".", "16">>,
                      <<"10", ".", "0", ".", "1", ".", "0">> },
        p \in {0, 24, 28, 31, 32} }

SegmentTokens ==
    { strAddr \o <<"/", digits(q)>> :
        strAddr \in { Any4, <<"10", ".", "0", ".", "0", ".", "0">>,
                      <<"10", ".", "0", ".", "0", ".", "17">> },
        q \in {0, 24, 28, 32} }

\* A call of isIPv4WithPrefixLengthIncludedInSegment, the first call of a
\* function outside the worker's handlers.
CallIsIPv4WithPrefixLengthIncludedInSegment(strTest, strSegment) ==
    /\ call = <<>>
    /\ call' = <<"isIPv4WithPrefixLengthIncludedInSegment", strTest, strSegment>>
    /\ result' = isIPv4WithPrefixLengthIncludedInSegment(strTest, strSegment)
    /\ UNCHANGED <<g_Domain_Data, configEdits, g_AllFlattenedPolicies, pc, parserVars,
                   lookupVars, postMessage, lastMessage, parses, parseHistory,
                   flattenedSince>>

NextSegment ==
    \E strTest \in TestTokens, strSegment \in SegmentTokens :
        CallIsIPv4WithPrefixLengthIncludedInSegment(strTest, strSegment)

SpecSegment == Init /\ [][NextSegment]_vars

\* n >> h for the addresses of the model, which are below 2^31.
shifted(n, h) == IF h >= 31 THEN 0 ELSE n \div (2 ^ h)

\* The number of host bits of the address set of a test token a/p: 32 - p if a
\* has no host bits set under p, and 0 (the single host a) if it has.
testHostBits(strToken) ==
    IF shifted(ipv4Number(strToken), 32 - subnetLength(strToken))
           * (IF subnetLength(strToken) <= 1 THEN 0 ELSE 2 ^ (32 - subnetLength(strToken)))
       = ipv4Number(strToken)
    THEN 32 - subnetLength(strToken)
    ELSE 0

\* The address set of the test token is a subset of the address set of the
\* segment c/q, the 2^(32-q) addresses that agree with c in the first q bits:
\* it is not larger, and its first address agrees with c in the first q bits.
isSubsetOfSegment(strToken, strSegment) ==
    /\ testHostBits(strToken) <= 32 - subnetLength(strSegment)
    /\ shifted(ipv4Number(strToken), 32 - subnetLength(strSegment))
           = shifted(ipv4Number(strSegment), 32 - subnetLength(strSegment))

isSegmentCall == call # <<>> /\ call[1] = "isIPv4WithPrefixLengthIncludedInSegment"

WildcardTokens ==
    { strAddr \o <<"/">> \o strMask :
        strAddr \in { <<"192", ".", "168", ".", "0", ".", "0">>,
                      <<"192", ".", "168", ".", "0", ".", "1">>,
                      <<"192", ".", "168", ".", "1", ".", "0">> },
        strMask \in { <<"255", ".", "255", ".", "0", ".", "255">>,
                      <<"255", ".", "255", ".", "255", ".", "0">>,
                      <<"255", ".", "255", ".", "255", ".", "253">>,
                      <<"255", ".", "255", ".", "255", ".", "255">>,
                      Any4 } }

WildcardQueries ==
    { strAddr \o <<"/", digits(p)>> :
        strAddr \in { <<"192", ".", "168", ".", "0", ".", "0">>,
                      <<"192", ".", "168", ".", "0", ".", "1">>,
                      <<"192", ".", "168", ".", "1", ".", "0">>,
                      <<"192", ".", "168", ".", "1", ".", "1">> },
        p \in {24, 31, 32} }

\* A call of isWithin for an IPv4 query that is not negated, the first call of
\* a function outside the worker's handlers.
CallIsWithin(strAddrToBeLookedUp, strLookupAddr, boolFqdnAndGeoMatchAll) ==
    /\ call = <<>>
    /\ call' = <<"isWithin", strAddrToBeLookedUp, strLookupAddr>>
    /\ result' = isWithin(strAddrToBeLookedUp, strLookupAddr, LOOKUP_ADDRESS_TYPE_IPV4,
                          FALSE, boolFqdnAndGeoMatchAll)
    /\ UNCHANGED <<g_Domain_Data, configEdits, g_AllFlattenedPolicies, pc, parserVars,
                   lookupVars, postMessage, lastMessage, parses, parseHistory,
                   flattenedSince>>

NextWildcard ==
    \E strAddrToBeLookedUp \in WildcardTokens, strLookupAddr \in WildcardQueries :
        \E boolFqdnAndGeoMatchAll \in BOOLEAN :
            CallIsWithin(strAddrToBeLookedUp, strLookupAddr, boolFqdnAndGeoMatchAll)

SpecWildcard == Init /\ [][NextWildcard]_vars

\* The stored token of the scenario.
S2Stored == <<"192", ".", "168", ".", "0", ".", "0", "/", "255", ".", "255", ".", "0", ".", "255">>

isS2Call == call # <<>> /\ call[1] = "isWithin" /\ call[2] = S2Stored

\* C19: against the stored token 192.168.0.0/255.255.0.255 the query
\* 192.168.0.1/32 matches, the query 192.168.1.1/32 does not match and the
\* query 192.168.0.0/31 does not match.
C19_Scenario ==
    isS2Call =>
        /\ call[3] = <<"192", ".", "168", ".", "0", ".", "1", "/", "32">> => result
        /\ call[3] = <<"192", ".", "168", ".", "1", ".", "1", "/", "32">> => ~result
        /\ call[3] = <<"192", ".", "168", ".", "0", ".", "0", "/", "31">> => ~result

\* C19 as amended: against the stored token 192.168.0.0/255.255.0.255 the
\* queries 192.168.0.1/32, 192.168.1.1/32 and 192.168.0.0/31 do not match; the
\* queries 192.168.0.0/32 and 192.168.1.0/32 match.
C19_ScenarioAmended ==
    isS2Call =>
        /\ call[3] = <<"192", ".", "168", ".", "0", ".", "1", "/", "32">> => ~result
        /\ call[3] = <<"192", ".", "168", ".", "1", ".", "1", "/", "32">> => ~result
        /\ call[3] = <<"192", ".", "168", ".", "0", ".", "0", "/", "31">> => ~result
        /\ call[3] = <<"192", ".", "168", ".", "0", ".", "0", "/", "32">> => result
        /\ call[3] = <<"192", ".", "168", ".", "1", ".", "0", "/", "32">> => result

\* The query 192.168.0.1/32 has been tested against the stored token and has
\* not matched.
C19_Witness ==
    /\ isS2Call
    /\ call[3] = <<"192", ".", "168", ".", "0", ".", "1", "/", "32">>
    /\ result = FALSE

(***************************************************************************)
(* Denies to the catch-all destination: C20                                *)
(***************************************************************************)

\* Two domains, each with a deny from the host h1 to all and an accept from
\* all to all on the same interfaces.
DenyBlocks ==
    { domain4(1, <<"V1">>,
          policyLines(<<"1">>, <<"deny">>, <<"port1">>, <<"h1">>, FALSE, <<>>)
          \o policyLines(<<"2">>, <<"accept">>, <<"port1">>, <<"all">>, FALSE, <<>>)),
      domain6(2, <<"V2">>,
          policyLines(<<"1">>, <<"deny">>, <<"port1">>, <<"h1">>, FALSE, <<>>)
          \o policyLines(<<"2">>, <<"accept">>, <<"port1">>, <<"all">>, FALSE, <<>>)) }

\* The lookup lists: a source, a destination and both, of each family.
DenyLookUpLists ==
    { <<Host4>>, <<<<",">> \o Host4>>, <<Host4 \o <<",">> \o Other4>>,
      <<Host6>>, <<<<",">> \o Host6>>, <<Host6 \o <<",">> \o Host6>> }

\* Texts of these domains, parsed by a worker that has parsed no text before,
\* flattened and looked up.
NextLookUpDeny ==
    \/ parses = 0 /\ MakeList
    \/ \E block \in DenyBlocks :
          /\ IF history = <<>> THEN TRUE ELSE block.id > history[Len(history)]
          /\ ParseLines(block)
    \/ MadeList
    \/ \E boolAddress, boolService \in BOOLEAN : Flatten(boolAddress, boolService)
    \/ \E arrayText \in DenyLookUpLists, boolFqdnAndGeoMatchAll \in BOOLEAN :
          LookUp(arrayText, boolFqdnAndGeoMatchAll)

SpecLookUpDeny == Init /\ [][NextLookUpDeny]_vars

\* A row of ACTION = deny, STATUS = enable and PROT = ip whose D_ADDR is the
\* catch-all of its family, whatever its S_ADDR: a 4to4 row to 0.0.0.0/0, a
\* 4to6 or 6to6 row to the expanded ::/0.
isDenyToAny(arrayToken) ==
    /\ at(arrayToken, NMCOL_ACTION) = <<"deny">>
    /\ at(arrayToken, NMCOL_STATUS) = <<"enable">>
    /\ at(arrayToken, NMCOL_PROTOCOL) = <<"ip">>
    /\ \/ /\ at(arrayToken, NMCOL_POL_TYPE) = <<"4to4">>
          /\ at(arrayToken, NMCOL_DST_ADDR) = IPV4_ANY
       \/ /\ at(arrayToken, NMCOL_POL_TYPE) \in {<<"4to6">>, <<"6to6">>}
          /\ at(arrayToken, NMCOL_DST_ADDR) = IPV6_ANY

\* The last message was a lookup of destinations alone.
isDstOnlyLookUp ==
    /\ Len(lastMessage) = 3
    /\ lastMessage[1] = MSG_LOOKUP
    /\ lastMessage[2] \in {<<<<",">> \o Host4>>, <<<<",">> \o Host6>>}

\* The last message was a lookup of sources, alone or with destinations.
isSrcLookUp ==
    /\ Len(lastMessage) = 3
    /\ lastMessage[1] = MSG_LOOKUP
    /\ lastMessage[2] \in DenyLookUpLists \ {<<<<",">> \o Host4>>, <<<<",">> \o Host6>>}

\* C20: in a destination-only query a matched row of ACTION = deny, STATUS =
\* enable and PROT = ip to the catch-all destination of its family, whatever
\* its S_ADDR, adds its key to the ineffectual set: the row itself, tested
\* after the key is added, is not in the list without the ineffectual rows.
C20_DstOnly ==
    isDstOnlyLookUp =>
        \A i \in 1..Len(pushedEI) :
            isDenyToAny(pushedToken(i)) => ~pushedEI[i].without

\* C20 as amended: in a source-only or a source-and-destination query a
\* matched row of ACTION = deny, STATUS = enable and PROT = ip to the catch-all
\* destination of its family, whatever its S_ADDR, adds its key to the
\* ineffectual set.
C20_SrcMatched ==
    isSrcLookUp =>
        \A i \in 1..Len(pushedEI) :
            isDenyToAny(pushedToken(i)) => pushedEI[i].from /\ ~pushedEI[i].without

\* A source query has matched a deny from a host to the catch-all destination,
\* and the accept behind it on the same interfaces is left out of the list
\* without the ineffectual rows.
C20_Witness ==
    /\ isSrcLookUp
    /\ \E i, j \in 1..Len(pushedEI) :
          /\ i < j
          /\ isDenyToAny(pushedToken(i))
          /\ ~isCatchAllDeny(pushedToken(i))
          /\ ~pushedEI[i].without
          /\ at(pushedToken(j), NMCOL_ACTION) = <<"accept">>
          /\ ~pushedEI[j].without

(***************************************************************************)
(* isWithin and the catch-all addresses: C21                               *)
(***************************************************************************)

\* The IPv6 host of the model in full representation, as a lookup address.
Host6Full == getIPv6FullRepresentedAddrWithPrefixLength(Host6)

\* The stored values and the lookup addresses of the model, by family.
Stored4 ==
    { IPV4_ANY, Host4 \o <<"/", "32">>,
      <<"10", ".", "0", ".", "0", ".", "0", "/", "24">>, S2Stored }

Stored6 == { IPV6_ANY, Host6Full }

LookupAddrs4 ==
    { IPV4_ANY, Host4 \o <<"/", "32">>, Other4 \o <<"/", "32">>,
      <<"10", ".", "0", ".", "0", ".", "0", "/", "24">>,
      <<"192", ".", "168", ".", "0", ".", "0", "/", "32">> }

\* A call of isWithin, the first call of a function outside the worker's
\* handlers.
CallIsWithinOfType(strAddrToBeLookedUp, strLookupAddr, intLookupAddrType, boolNegate, boolFqdnAndGeoMatchAll) ==
    /\ call = <<>>
    /\ call' = <<"isWithin", strAddrToBeLookedUp, strLookupAddr, intLookupAddrType,
                 boolNegate, boolFqdnAndGeoMatchAll>>
    /\ result' = isWithin(strAddrToBeLookedUp, strLookupAddr, intLookupAddrType,
                          boolNegate, boolFqdnAndGeoMatchAll)
    /\ UNCHANGED <<g_Domain_Data, configEdits, g_AllFlattenedPolicies, pc, parserVars,
                   lookupVars, postMessage, lastMessage, parses, parseHistory,
                   flattenedSince>>

NextWithin ==
    \E strAddrToBeLookedUp \in Stored4 \cup Stored6 :
        \E boolNegate \in BOOLEAN, boolFqdnAndGeoMatchAll \in BOOLEAN :
            \/ \E strLookupAddr \in LookupAddrs4 :
                  CallIsWithinOfType(strAddrToBeLookedUp, strLookupAddr,
                                     LOOKUP_ADDRESS_TYPE_IPV4, boolNegate,
                                     boolFqdnAndGeoMatchAll)
            \/ CallIsWithinOfType(strAddrToBeLookedUp, Host6Full,
                                  LOOKUP_ADDRESS_TYPE_IPV6, boolNegate,
                                  boolFqdnAndGeoMatchAll)

SpecWithin == Init /\ [][NextWithin]_vars

isWithinCall == call # <<>> /\ call[1] = "isWithin" /\ Len(call) = 6

\* C21: whenever the query is the catch-all of its family and the stored token
\* is a value of that family, isWithin returns !negate.
C21_QueryAny ==
    isWithinCall =>
        /\ (call[4] = LOOKUP_ADDRESS_TYPE_IPV4 /\ call[3] = IPV4_ANY /\ call[2] \in Stored4)
               => result = ~call[5]
        /\ (call[4] = LOOKUP_ADDRESS_TYPE_IPV6 /\ call[3] = IPV6_ANY /\ call[2] \in Stored6)
               => result = ~call[5]

\* C21 as amended: whenever the stored token is the catch-all of the query's
\* family (0.0.0.0/0 for an IPv4 query, the fully expanded ::/0 for an IPv6
\* query), whatever the query of that family, isWithin returns !negate.
C21_StoredAny ==
    isWithinCall =>
        /\ (call[4] = LOOKUP_ADDRESS_TYPE_IPV4 /\ call[2] = IPV4_ANY) => result = ~call[5]
        /\ (call[4] = LOOKUP_ADDRESS_TYPE_IPV6 /\ call[2] = IPV6_ANY) => result = ~call[5]

\* A negated IPv6 query of a host against the stored catch-all has returned
\* false.
C21_Witness ==
    /\ isWithinCall
    /\ call[4] = LOOKUP_ADDRESS_TYPE_IPV6
    /\ call[2] = IPV6_ANY
    /\ call[3] = Host6Full
    /\ call[5] = TRUE
    /\ result = FALSE

(***************************************************************************)
(* Services with a destination address: C22                                *)
(***************************************************************************)

\* A TCP service of port 80 whose iprange is strIpRange, <<>> for none.
serviceLines(strName, strIpRange) ==
    <<line(<<<<"edit">>, quoted(strName)>>),
      line(<<<<"set">>, <<"protocol">>, <<"TCP", "/", "UDP", "/", "SCTP">>>>),
      line(<<<<"set">>, <<"tcp", "-", "portrange">>, <<"80">>>>)>>
    \o (IF strIpRange # <<>>
        THEN <<line(<<<<"set">>, <<"iprange">>, strIpRange>>)>> ELSE <<>>)
    \o <<<<"next">>>>

\* An accept from all to strDstAddr of the service strService.
servicePolicyLines(strName, strDstAddr, strService) ==
    editLines(strName,
              <<<<<<"port1">>>>, <<<<"port2">>>>, <<<<"all">>>>, <<strDstAddr>>,
                <<strService>>>>,
              <<line(<<<<"set">>, <<"action">>, <<"accept">>>>)>>)

\* One domain: the addresses all and h1, the services ALL (SD_ADDR -), S0
\* (SD_ADDR 0/0), S1 (SD_ADDR Host4/32) and S2 (SD_ADDR Other4/32), and the
\* policies arrayPolicyLine.
serviceDomain(n, strVdom, arrayPolicyLine) ==
    numbered(n, lineBlock("lines",
        ConfigVdom(strVdom).lines
        \o <<line(<<<<"config">>, <<"firewall">>, <<"address">>>>),
             line(<<<<"edit">>, quoted(<<"all">>)>>), <<"next">>,
             line(<<<<"edit">>, quoted(<<"h1">>)>>),
             line(<<<<"set">>, <<"subnet">>, Host4,
                    <<"255", ".", "255", ".", "255", ".", "255">>>>),
             <<"next">>, <<"end">>>>
        \o <<line(<<<<"config">>, <<"firewall">>, <<"service">>, <<"custom">>>>),
             line(<<<<"edit">>, quoted(<<"ALL">>)>>),
             line(<<<<"set">>, <<"protocol">>, <<"IP">>>>),
             <<"next">>>>
        \o serviceLines(<<"S0">>, <<>>)
        \o serviceLines(<<"S1">>, Host4)
        \o serviceLines(<<"S2">>, Other4)
        \o <<<<"end">>, line(<<<<"config">>, <<"firewall">>, <<"policy">>>>)>>
        \o arrayPolicyLine \o <<<<"end">>, <<"end">>>>))

ServiceBlocks ==
    { serviceDomain(1, <<"V1">>,
          servicePolicyLines(<<"1">>, <<"all">>, <<"S1">>)
          \o servicePolicyLines(<<"2">>, <<"h1">>, <<"S2">>)
          \o servicePolicyLines(<<"3">>, <<"h1">>, <<"S1">>)),
      serviceDomain(2, <<"V2">>,
          servicePolicyLines(<<"1">>, <<"h1">>, <<"S0">>)
          \o servicePolicyLines(<<"2">>, <<"all">>, <<"ALL">>)
          \o servicePolicyLines(<<"3">>, <<"all">>, <<"S2">>)) }

\* The lookup lists: a source, a destination, and both, of two hosts.
ServiceLookUpLists ==
    { <<Host4>>, <<Other4>>, <<<<",">> \o Host4>>, <<<<",">> \o Other4>>,
      <<Host4 \o <<",">> \o Host4>>, <<Other4 \o <<",">> \o Other4>> }

\* Texts of these domains, parsed by a worker that has parsed no text before,
\* flattened and looked up.
NextLookUpService ==
    \/ parses = 0 /\ MakeList
    \/ \E block \in ServiceBlocks :
          /\ IF history = <<>> THEN TRUE ELSE block.id > history[Len(history)]
          /\ ParseLines(block)
    \/ MadeList
    \/ \E boolAddress, boolService \in BOOLEAN : Flatten(boolAddress, boolService)
    \/ \E arrayText \in ServiceLookUpLists, boolFqdnAndGeoMatchAll \in BOOLEAN :
          LookUp(arrayText, boolFqdnAndGeoMatchAll)

SpecLookUpService == Init /\ [][NextLookUpService]_vars

\* The destination the last message has looked up, with its prefix length;
\* <<>> if the last message was no lookup or a lookup of a source alone.
lookedUpDst ==
    IF Len(lastMessage) = 3 /\ lastMessage[1] = MSG_LOOKUP
       /\ indexOf(lastMessage[2][1], <<",">>) # -1
    THEN split(lastMessage[2][1], <<",">>)[2] \o <<"/", "32">>
    ELSE <<>>

\* The source the last message has looked up, with its prefix length; <<>> if
\* the last message was no lookup or a lookup of a destination alone.
lookedUpSrc ==
    IF Len(lastMessage) = 3 /\ lastMessage[1] = MSG_LOOKUP
       /\ split(lastMessage[2][1], <<",">>)[1] # <<>>
    THEN split(lastMessage[2][1], <<",">>)[1] \o <<"/", "32">>
    ELSE <<>>

\* The host strLookupAddr lies within the column intColumn of the row: the
\* column is the catch-all or the host itself.
hostWithinColumn(strLookupAddr, arrayToken, intColumn) ==
    \/ at(arrayToken, intColumn) = IPV4_ANY
    \/ at(arrayToken, intColumn) = strLookupAddr

\* The address columns of the row match the addresses looked up.
addressColumnsMatch(arrayToken) ==
    /\ lookedUpSrc # <<>> => hostWithinColumn(lookedUpSrc, arrayToken, NMCOL_SRC_ADDR)
    /\ lookedUpDst # <<>> => hostWithinColumn(lookedUpDst, arrayToken, NMCOL_DST_ADDR)

\* C22: in a destination-only or a source-and-destination query a row whose
\* SD_ADDR is neither 0/0 nor - matches only if the destination lies within
\* D_ADDR and within SD_ADDR; a row whose SD_ADDR is 0/0 or - matches exactly
\* when the address columns match; a source-only query matches a row exactly
\* when its S_ADDR matches, whatever its SD_ADDR.
C22_Narrowing ==
    (Len(lastMessage) = 3 /\ lastMessage[1] = MSG_LOOKUP) =>
        \A r \in 1..Len(g_AllFlattenedPolicies) :
            LET strLine == g_AllFlattenedPolicies[r]
                arrayToken == split(strLine, <<",">>)
                strServiceDstAddr == at(arrayToken, NMCOL_SERVICE_DSTADDR)
            IN  IF lookedUpDst = <<>> \/ strServiceDstAddr \in {<<"0", "/", "0">>, <<"-">>}
                THEN isLookedUp(strLine) <=> addressColumnsMatch(arrayToken)
                ELSE isLookedUp(strLine) <=>
                         /\ addressColumnsMatch(arrayToken)
                         /\ hostWithinColumn(lookedUpDst, arrayToken, NMCOL_SERVICE_DSTADDR)

\* A destination query of the host Other4 has left out a row to all whose
\* SD_ADDR is Host4/32 and has matched a row to all whose SD_ADDR is Other4/32.
C22_Witness ==
    /\ lookedUpDst = Other4 \o <<"/", "32">>
    /\ \E r, s \in 1..Len(g_AllFlattenedPolicies) :
          /\ at(split(g_AllFlattenedPolicies[r], <<",">>), NMCOL_DST_ADDR) = IPV4_ANY
          /\ at(split(g_AllFlattenedPolicies[r], <<",">>), NMCOL_SERVICE_DSTADDR)
                 = Host4 \o <<"/", "32">>
          /\ ~isLookedUp(g_AllFlattenedPolicies[r])
          /\ at(split(g_AllFlattenedPolicies[s], <<",">>), NMCOL_DST_ADDR) = IPV4_ANY
          /\ at(split(g_AllFlattenedPolicies[s], <<",">>), NMCOL_SERVICE_DSTADDR)
                 = Other4 \o <<"/", "32">>
          /\ isLookedUp(g_AllFlattenedPolicies[s])

(***************************************************************************)
(* Multicast policies and their ports: C23, C24                            *)
(***************************************************************************)

\* A multicast policy of the protocol strProtocol from "all" to "all"; it
\* sets start-port and end-port where they are not <<>>.
multicastBlock(n, strProtocol, strStartPort, strEndPort) ==
    numbered(n, editBlock(numStr(n),
        <<<<<<"port1">>>>, <<<<"port2">>>>, <<<<"all">>>>, <<<<"all">>>>, <<>>>>,
        <<line(<<<<"set">>, <<"protocol">>, strProtocol>>)>>
        \o (IF strStartPort # <<>>
            THEN <<line(<<<<"set">>, <<"start", "-", "port">>, strStartPort>>)>> ELSE <<>>)
        \o (IF strEndPort # <<>>
            THEN <<line(<<<<"set">>, <<"end", "-", "port">>, strEndPort>>)>> ELSE <<>>)))

\* The ports of the multicast policies, by the number of the policy.
MulticastPorts ==
    <<[protocol |-> <<"6">>, start |-> <<"1111">>, end |-> <<"1119">>],
      [protocol |-> <<"17">>, start |-> <<"1111">>, end |-> <<>>],
      [protocol |-> <<"132">>, start |-> <<>>, end |-> <<>>]>>

MulticastBlocks ==
    { ConfigFirewall(<<"multicast", "-", "policy">>), End }
    \cup { multicastBlock(n, MulticastPorts[n].protocol, MulticastPorts[n].start,
                          MulticastPorts[n].end) : n \in DOMAIN MulticastPorts }

\* One configuration of multicast policies, parsed by a worker that has
\* parsed none before, and normalized.
NextMulticast ==
    \/ parses = 0 /\ MakeList
    \/ \E block \in MulticastBlocks : ParseLines(block)
    \/ MadeList
    \/ Normalize

SpecMulticast == Init /\ [][NextMulticast]_vars

\* The block parsed last was a multicast policy, the one of number n.
lastMulticast(n) ==
    /\ lastEdit.handler \in DOMAIN FirewallMulticastPolicy
    /\ history # <<>>
    /\ history[Len(history)] = n

\* D_PORT of a policy that sets the ports strStartPort and strEndPort.
multicastDstPort(strStartPort, strEndPort) ==
    IF strStartPort = <<>> THEN <<"eq", "/", "any">>
    ELSE IF strEndPort = <<>> THEN <<"eq", "/">> \o strStartPort
    ELSE <<"range", "/">> \o strStartPort \o <<"-">> \o strEndPort

\* C23: the rows of a multicast policy whose protocol is 6, 17 or 132 have
\* S_PORT = eq/any, SD_ADDR = 0/0, I_TPCD = -/- and D_PORT = eq/any when the
\* edit sets no start-port, eq/N when it sets start-port N alone and range/S-E
\* when it sets start-port S and end-port E, whatever multicast policies were
\* parsed before it.
C23_Ports ==
    \A n \in DOMAIN MulticastPorts :
        lastMulticast(n) =>
            \A i \in 1..Len(lastEditRows) :
                LET arrayToken == split(lastEditRows[i], <<",">>)
                IN  /\ at(arrayToken, NMCOL_SRC_PORT) = <<"eq", "/", "any">>
                    /\ at(arrayToken, NMCOL_SERVICE_DSTADDR) = <<"0", "/", "0">>
                    /\ at(arrayToken, NMCOL_ICMPTYCD) = <<"-", "/", "-">>
                    /\ at(arrayToken, NMCOL_DST_PORT)
                           = multicastDstPort(MulticastPorts[n].start, MulticastPorts[n].end)

\* The fields of the record of the multicast policies the normalizer reads
\* beside the members, and those the policy of number n sets.
MulticastFields ==
    {<<"protocol">>, <<"action">>, <<"status">>, <<"start", "_", "port">>,
     <<"end", "_", "port">>}

multicastFieldsSet(n) ==
    {<<"protocol">>}
    \cup (IF MulticastPorts[n].start # <<>> THEN {<<"start", "_", "port">>} ELSE {})
    \cup (IF MulticastPorts[n].end # <<>> THEN {<<"end", "_", "port">>} ELSE {})

\* C24: begin(editName) gives every field the normalizer reads its default,
\* the empty string, so that after an edit every such field the edit has not
\* set still holds the empty string, whatever an earlier edit of the same
\* handler has set.
C24_Defaults ==
    \A n \in DOMAIN MulticastPorts :
        lastMulticast(n) =>
            \A strField \in MulticastFields \ multicastFieldsSet(n) :
                getProp(configEdits[lastEdit.handler].objParam, strField) = <<>>

(***************************************************************************)
(* The domain of an entry and the growth of the store: C25, C30            *)
(***************************************************************************)

\* `config firewall address`, the address strName and `end`.
oneAddressStanza(n, strName, strHost) ==
    numbered(n, lineBlock("lines",
        <<line(<<<<"config">>, <<"firewall">>, <<"address">>>>),
          line(<<<<"edit">>, quoted(strName)>>),
          line(<<<<"set">>, <<"subnet">>, strHost,
                 <<"255", ".", "255", ".", "255", ".", "255">>>>),
          <<"next">>, <<"end">>>>))

\* `config firewall policy`, one policy and `end`.
onePolicyStanza(n) ==
    numbered(n, lineBlock("lines",
        <<line(<<<<"config">>, <<"firewall">>, <<"policy">>>>)>>
        \o policyLines(<<"1">>, <<"accept">>, <<"port1">>, <<"h1">>, FALSE, <<>>)
        \o <<<<"end">>>>))

\* The blocks of a text of several domains: the heads of two VDOMs, three
\* stanzas of one entry each, and `end`.
VdomBlocks ==
    { numbered(1, ConfigVdom(<<"V1">>)), numbered(2, ConfigVdom(<<"V2">>)),
      oneAddressStanza(3, <<"h1">>, Host4), oneAddressStanza(4, <<"h2">>, Other4),
      onePolicyStanza(5), numbered(6, End) }

\* One text of these blocks in any order, parsed by a worker that has parsed
\* none before.
NextVdom ==
    \/ parses = 0 /\ MakeList
    \/ \E block \in VdomBlocks : ParseLines(block)
    \/ MadeList

SpecVdom == Init /\ [][NextVdom]_vars

\* The tables and the lists of a domain record.
DomainTables ==
    {"service_custom", "service_group", "address4", "addrgrp4", "address6", "addrgrp6",
     "multicastaddress4", "multicastaddress6"}

DomainLists ==
    {"policy4to4", "policy6to6", "policy6to4", "policy4to6", "policy4to4m", "policy6to6m"}

\* The record i of the store after the step is new or differs from the one
\* before the step.
recordChanged(i) == i > Len(g_Domain_Data) \/ g_Domain_Data'[i] # g_Domain_Data[i]

\* The record has no entry and no row.
isEmptyRecord(record) ==
    /\ \A strTable \in DomainTables : DOMAIN record[strTable] = {}
    /\ \A strList \in DomainLists : record[strList] = <<>>

\* A step of the parse that is no `config vdom` / `edit` block.
parsedStanza ==
    /\ pc = "parsing" /\ pc' = "parsing"
    /\ history' # history
    /\ history'[Len(history')] \in 3..6

\* C25: every object and every policy row is installed in the record of the
\* VDOM current at its edit, the empty name when there is none, and carries
\* that name as DOM_NAME; after the `end` that closes a `config vdom` frame the
\* current VDOM is the empty string again.
C25_CurrentVdom ==
    [][/\ parsedStanza =>
             \A i \in 1..Len(g_Domain_Data') :
                 /\ recordChanged(i) => g_Domain_Data'[i].name = strDomainName
                 /\ \A r \in 1..Len(g_Domain_Data'[i].policy4to4) :
                        at(split(g_Domain_Data'[i].policy4to4[r], <<",">>), NMCOL_DOM_NAME)
                            = g_Domain_Data'[i].name
       /\ (/\ parsedStanza
           /\ Len(stack_config') < Len(stack_config)
           /\ configName(last(stack_config)) = Undefined
           /\ last(stack_config)[2] = <<"vdom">>) => strDomainName' = <<>>]_vars

\* After `config vdom`, `edit "V1"`, an address stanza, `end` and a second
\* address stanza, h1 is an address of V1 and h2 one of the global domain.
C25_Witness ==
    /\ history = <<1, 3, 6, 4>>
    /\ hasDomain(g_Domain_Data, <<"V1">>)
    /\ hasDomain(g_Domain_Data, <<>>)
    /\ DOMAIN domainData(g_Domain_Data, <<"V1">>).address4 = {<<"h1">>}
    /\ DOMAIN domainData(g_Domain_Data, <<>>).address4 = {<<"h2">>}

\* The entries of the store after the step that are new or differ from the
\* entries before the step, rows of lists included.
entriesAltered ==
    { <<i, strTable, strName>> \in
          (1..Len(g_Domain_Data')) \X DomainTables \X {<<"h1">>, <<"h2">>} :
          /\ strName \in DOMAIN g_Domain_Data'[i][strTable]
          /\ \/ i > Len(g_Domain_Data)
             \/ strName \notin DOMAIN g_Domain_Data[i][strTable]
             \/ g_Domain_Data'[i][strTable][strName] # g_Domain_Data[i][strTable][strName] }

\* C30: within one parse the store of a domain only grows: every record stays
\* in its place under its name, with every entry of its tables and with its
\* lists as prefixes of the lists after the step; a record is created only
\* for a name that has none, and a step that installs one entry alters no
\* other entry.
C30_Grows ==
    [][(pc = "parsing" /\ pc' = "parsing") =>
          /\ Len(g_Domain_Data') >= Len(g_Domain_Data)
          /\ \A i \in 1..Len(g_Domain_Data) :
                /\ g_Domain_Data'[i].name = g_Domain_Data[i].name
                /\ \A strTable \in DomainTables :
                      DOMAIN g_Domain_Data[i][strTable] \subseteq DOMAIN g_Domain_Data'[i][strTable]
                /\ \A strList \in DomainLists :
                      /\ Len(g_Domain_Data'[i][strList]) >= Len(g_Domain_Data[i][strList])
                      /\ SubSeq(g_Domain_Data'[i][strList], 1, Len(g_Domain_Data[i][strList]))
                            = g_Domain_Data[i][strList]
          /\ \A i \in (Len(g_Domain_Data) + 1)..Len(g_Domain_Data') :
                ~hasDomain(g_Domain_Data, g_Domain_Data'[i].name)
          /\ \A i, j \in 1..Len(g_Domain_Data') :
                g_Domain_Data'[i].name = g_Domain_Data'[j].name => i = j
          /\ Cardinality(entriesAltered) <= 1]_vars

\* V1 was entered, left and entered again: it has the address h1 of the first
\* time, the address h2 of the second and the rows of the policy.
C30_Witness ==
    /\ history = <<1, 3, 6, 1, 4>>
    /\ DOMAIN domainData(g_Domain_Data, <<"V1">>).address4 = {<<"h1">>, <<"h2">>}
    /\ Len(g_Domain_Data) = 1

(***************************************************************************)
(* The columns the flattener rewrites: C26                                 *)
(***************************************************************************)

\* The columns MSG_FLATTEN with these toggles may rewrite.
columnsRewritten(boolAddress, boolService) ==
    (IF boolAddress THEN {NMCOL_SRC_ADDR, NMCOL_DST_ADDR} ELSE {})
    \cup (IF boolService
          THEN {NMCOL_PROTOCOL, NMCOL_SRC_PORT, NMCOL_DST_PORT, NMCOL_SERVICE_DSTADDR,
                NMCOL_ICMPTYCD}
          ELSE {})

\* The flattened row has the columns of the normalized row, those of
\* `columns` aside.
sameOtherColumns(strFlattened, strNormalized, columns) ==
    LET arrayFlattened == split(strFlattened, <<",">>)
        arrayNormalized == split(strNormalized, <<",">>)
    IN  /\ Len(arrayFlattened) = Len(arrayNormalized)
        /\ \A c \in (0..(Len(arrayNormalized) - 1)) \ columns :
               at(arrayFlattened, c) = at(arrayNormalized, c)

\* The normalized rows a flattened row may derive from, by their indices.
sourceRows(strFlattened, columns) ==
    { n \in 1..Len(allNormalizedPolicies(g_Domain_Data, 1, 1)) :
          sameOtherColumns(strFlattened, allNormalizedPolicies(g_Domain_Data, 1, 1)[n],
                           columns) }

\* The last message was MSG_FLATTEN: the store is the one it has flattened.
isFlattened == Len(lastMessage) = 3 /\ lastMessage[1] = MSG_FLATTEN

\* C26: every flattened row equals a normalized row in every column that its
\* toggles do not rewrite (S_ADDR and D_ADDR for the address toggle; PROT,
\* S_PORT, D_PORT, SD_ADDR and I_TPCD for the service toggle), the flattened
\* rows are in the order of their source rows, and with both toggles off the
\* flattened list is the normalized list.
C26_Frame ==
    isFlattened =>
        LET columns == columnsRewritten(lastMessage[2], lastMessage[3])
        IN  /\ \A i \in 1..Len(g_AllFlattenedPolicies) :
                   sourceRows(g_AllFlattenedPolicies[i], columns) # {}
            /\ \A i, j \in 1..Len(g_AllFlattenedPolicies) :
                   i < j =>
                       \E a \in sourceRows(g_AllFlattenedPolicies[i], columns),
                          b \in sourceRows(g_AllFlattenedPolicies[j], columns) : a <= b
            /\ columns = {} =>
                   g_AllFlattenedPolicies = allNormalizedPolicies(g_Domain_Data, 1, 1)

\* C26 for the rows without a comma in a column: the normalized rows of 22
\* comma-separated columns.
C26_FrameOf22 ==
    (/\ isFlattened
     /\ \A n \in 1..Len(allNormalizedPolicies(g_Domain_Data, 1, 1)) :
            Len(split(allNormalizedPolicies(g_Domain_Data, 1, 1)[n], <<",">>)) = 22)
        => C26_Frame

(***************************************************************************)
(* Lookup lists of several lines: C27                                      *)
(***************************************************************************)

\* The lookup lists of two lines: two sources, in either order, a source and
\* a destination, and two sources of different families.
LinesLookUpLists ==
    { <<Host4, Other4>>, <<Other4, Host4>>, <<Host4, <<",">> \o Other4>>,
      <<Host6, Host4>>, <<Other4 \o <<",">> \o Host4, Host4>> }

\* The texts of the denies from a host, parsed by a worker that has parsed no
\* text before, flattened and looked up with lists of two lines.
NextLookUpLines ==
    \/ parses = 0 /\ MakeList
    \/ \E block \in DenyBlocks :
          /\ IF history = <<>> THEN TRUE ELSE block.id > history[Len(history)]
          /\ ParseLines(block)
    \/ MadeList
    \/ \E boolAddress, boolService \in BOOLEAN : Flatten(boolAddress, boolService)
    \/ \E arrayText \in LinesLookUpLists, boolFqdnAndGeoMatchAll \in BOOLEAN :
          LookUp(arrayText, boolFqdnAndGeoMatchAll)

SpecLookUpLines == Init /\ [][NextLookUpLines]_vars

\* The two result arrays of the lookup of the one line strLine.
lineResult(strLine) == lookUpAddrList(g_AllFlattenedPolicies, <<strLine>>, lastMessage[3])

\* C27: the ineffectual key set lives for one line of the lookup list: the
\* list of all matches and the list without the ineffectual rows are those of
\* the lookups of the single lines, one after the other in the order of the
\* lines, and the elements of a later line come behind those of an earlier.
C27_PerLine ==
    (Len(lastMessage) = 3 /\ lastMessage[1] = MSG_LOOKUP /\ Len(lastMessage[2]) = 2) =>
        /\ arrayLookupResult = lineResult(lastMessage[2][1]).arrayResult
                               \o lineResult(lastMessage[2][2]).arrayResult
        /\ arrayLookupResultEI =
               lineResult(lastMessage[2][1]).arrayResultWithoutIneffectual
               \o lineResult(lastMessage[2][2]).arrayResultWithoutIneffectual
        /\ \A i, j \in 1..Len(pushedEI) : i < j => pushedEI[i].scan <= pushedEI[j].scan

\* The scan of the first line has matched a deny that makes its key
\* ineffectual, and the scan of the second line, which has not matched that
\* deny, has matched a row of that key: it is in the list without the
\* ineffectual rows.
C27_Witness ==
    \E i, j \in 1..Len(pushedEI) :
        /\ pushedEI[i].scan = 1
        /\ pushedEI[j].scan = 2
        /\ isPolicyIneffectual(pushedToken(i), pushedEI[i].from)
        /\ sameKey(pushedToken(i), pushedToken(j))
        /\ pushedEI[j].without
        /\ \A k \in 1..Len(pushedEI) :
               pushedEI[k].scan = 2 => pushedEI[k].strLine # pushedEI[i].strLine

(***************************************************************************)
(* Empty groups and names that are defined nowhere: C28                    *)
(***************************************************************************)

\* An accept from strSrcAddr to the address h1, of the service ALL.
unknownPolicyLines(strName, strSrcAddr) ==
    editLines(strName,
              <<<<<<"port1">>>>, <<<<"port2">>>>, <<strSrcAddr>>, <<<<"h1">>>>, <<<<"ALL">>>>>>,
              <<line(<<<<"set">>, <<"action">>, <<"accept">>>>)>>)

\* The objects of the text: the address h1, the group g0 whose one member is
\* defined nowhere, and the service ALL.
UnknownObjects ==
    numbered(1, lineBlock("lines",
        <<line(<<<<"config">>, <<"firewall">>, <<"address">>>>),
          line(<<<<"edit">>, quoted(<<"h1">>)>>),
          line(<<<<"set">>, <<"subnet">>, Host4,
                 <<"255", ".", "255", ".", "255", ".", "255">>>>),
          <<"next">>, <<"end">>,
          line(<<<<"config">>, <<"firewall">>, <<"addrgrp">>>>),
          line(<<<<"edit">>, quoted(<<"g0">>)>>),
          line(<<<<"set">>, <<"member">>, quoted(<<"nowhere">>)>>),
          <<"next">>, <<"end">>,
          line(<<<<"config">>, <<"firewall">>, <<"service">>, <<"custom">>>>),
          line(<<<<"edit">>, quoted(<<"ALL">>)>>),
          line(<<<<"set">>, <<"protocol">>, <<"IP">>>>),
          <<"next">>, <<"end">>,
          line(<<<<"config">>, <<"firewall">>, <<"policy">>>>)>>))

\* The source of the policy of each number: the address h1, the empty group,
\* and names that neither the address table nor the group table holds.
UnknownSources == <<<<"h1">>, <<"g0">>, <<"nowhere">>, <<"toString">>>>

UnknownBlocks ==
    { UnknownObjects }
    \cup { numbered(n + 1, lineBlock("lines", unknownPolicyLines(numStr(n), UnknownSources[n]))) :
               n \in DOMAIN UnknownSources }

\* The objects and policies in any order with ascending numbers, parsed by a
\* worker that has parsed no text before, normalized and flattened.
NextUnknown ==
    \/ parses = 0 /\ MakeList
    \/ \E block \in UnknownBlocks :
          /\ IF history = <<>> THEN block.id = 1 ELSE block.id > history[Len(history)]
          /\ ParseLines(block)
    \/ MadeList
    \/ Normalize
    \/ \E boolAddress, boolService \in BOOLEAN : Flatten(boolAddress, boolService)

SpecUnknown == Init /\ [][NextUnknown]_vars

\* The flattened rows of the policy of number n.
flattenedOf(n) ==
    { i \in 1..Len(g_AllFlattenedPolicies) :
          at(split(g_AllFlattenedPolicies[i], <<",">>), NMCOL_POL_ID) = numStr(n) }

\* The policy of number n is a policy of the store.
isParsed(n) == \E k \in 1..Len(history) : history[k] = n + 1

\* The policy of number n has no flattened row if its source is the empty
\* group; if its source is a name of neither table, it has rows and they
\* carry the name unchanged.
emptyOrPassedThrough(n) ==
    IF UnknownSources[n] = <<"g0">> THEN flattenedOf(n) = {}
    ELSE /\ flattenedOf(n) # {}
         /\ \A i \in flattenedOf(n) :
                at(split(g_AllFlattenedPolicies[i], <<",">>), NMCOL_SRC_ADDR)
                    = UnknownSources[n]

\* The last message was MSG_FLATTEN with the address toggle on.
isAddressFlattened == Len(lastMessage) = 3 /\ lastMessage[1] = MSG_FLATTEN /\ lastMessage[2]

\* C28: with address flattening on, a row whose S_ADDR names a group with an
\* empty value list produces no flattened row, and a row whose S_ADDR is a
\* name of neither the address table nor the group table produces rows with
\* the name unchanged.
C28_EmptyOrUnknown ==
    isAddressFlattened =>
        \A n \in 2..Len(UnknownSources) : isParsed(n) => emptyOrPassedThrough(n)

\* C28 for the names that are no property the tables inherit.
C28_OrdinaryNames ==
    isAddressFlattened =>
        \A n \in 2..3 :
            (isParsed(n) /\ ~isParsed(4)) => emptyOrPassedThrough(n)

\* The policies of the empty group and of the name `nowhere` were flattened
\* with the addresses: there is no row of the first and one of the second.
C28_OrdinaryNamesWitness ==
    /\ isAddressFlattened
    /\ isParsed(2) /\ isParsed(3) /\ ~isParsed(4)
    /\ flattenedOf(2) = {}
    /\ flattenedOf(3) # {}

(***************************************************************************)
(* Names of other domains: C29                                             *)
(***************************************************************************)

\* The address h2 and the service S1, as the global domain and V2 define them.
otherObjectLines ==
    <<line(<<<<"config">>, <<"firewall">>, <<"address">>>>),
      line(<<<<"edit">>, quoted(<<"h2">>)>>),
      line(<<<<"set">>, <<"subnet">>, Other4, <<"255", ".", "255", ".", "255", ".", "255">>>>),
      <<"next">>, <<"end">>,
      line(<<<<"config">>, <<"firewall">>, <<"service">>, <<"custom">>>>)>>
    \o serviceLines(<<"S1">>, <<>>)
    \o <<<<"end">>>>

\* The group g1 of the members h1 and h2 and a policy from h2 to g1 of the
\* service S1.
groupAndPolicyLines ==
    <<line(<<<<"config">>, <<"firewall">>, <<"addrgrp">>>>),
      line(<<<<"edit">>, quoted(<<"g1">>)>>),
      line(<<<<"set">>, <<"member">>, quoted(<<"h1">>), quoted(<<"h2">>)>>),
      <<"next">>, <<"end">>,
      line(<<<<"config">>, <<"firewall">>, <<"policy">>>>)>>
    \o editLines(<<"1">>,
                 <<<<<<"port1">>>>, <<<<"port2">>>>, <<<<"h2">>>>, <<<<"g1">>>>, <<<<"S1">>>>>>,
                 <<line(<<<<"set">>, <<"action">>, <<"accept">>>>)>>)
    \o <<<<"end">>>>

\* The address h1 of a domain.
ownAddressLines ==
    <<line(<<<<"config">>, <<"firewall">>, <<"address">>>>),
      line(<<<<"edit">>, quoted(<<"h1">>)>>),
      line(<<<<"set">>, <<"subnet">>, Host4, <<"255", ".", "255", ".", "255", ".", "255">>>>),
      <<"next">>, <<"end">>>>

\* The global domain defines h2 and S1; V1 defines h1, g1 and the policy; V2
\* defines h1, h2, S1, g1 and the policy; V3 defines g1 and the policy.
CrossBlocks ==
    { numbered(1, lineBlock("lines", otherObjectLines)),
      numbered(2, lineBlock("lines",
          ConfigVdom(<<"V1">>).lines \o ownAddressLines \o groupAndPolicyLines
          \o <<<<"end">>>>)),
      numbered(3, lineBlock("lines",
          ConfigVdom(<<"V2">>).lines \o ownAddressLines \o otherObjectLines
          \o groupAndPolicyLines \o <<<<"end">>>>)),
      numbered(4, lineBlock("lines",
          ConfigVdom(<<"V3">>).lines \o groupAndPolicyLines \o <<<<"end">>>>)) }

\* The domains in their order, some left out, parsed by a worker that has
\* parsed no text before, normalized and flattened.
NextCross ==
    \/ parses = 0 /\ MakeList
    \/ \E block \in CrossBlocks :
          /\ IF history = <<>> THEN TRUE ELSE block.id > history[Len(history)]
          /\ ParseLines(block)
    \/ MadeList
    \/ Normalize
    \/ \E boolAddress, boolService \in BOOLEAN : Flatten(boolAddress, boolService)

SpecCross == Init /\ [][NextCross]_vars

\* The policy rows of the domain strVdom in the list arrayRow.
rowsOfDomain(arrayRow, strVdom) ==
    { i \in 1..Len(arrayRow) : at(split(arrayRow[i], <<",">>), NMCOL_DOM_NAME) = strVdom }

\* The column of the row of the list.
columnOf(arrayRow, i, intColumn) == at(split(arrayRow[i], <<",">>), intColumn)

\* C29: the names of a row or a group of V1 are looked up in the tables of V1
\* alone: h2 and S1, defined in the global domain and in V2 only, add nothing
\* to the group g1 of V1, and the policy of V1 keeps S1 in PROT and in the
\* port columns when it is normalized and S1 and h2 when it is flattened.
C29_OwnTables ==
    /\ \A d \in 1..Len(g_Domain_Data) :
           (g_Domain_Data[d].name = <<"V1">> /\ <<"g1">> \in DOMAIN g_Domain_Data[d].addrgrp4)
               => g_Domain_Data[d].addrgrp4[<<"g1">>].value = <<Host4 \o <<"/", "32">>>>
    /\ \A i \in rowsOfDomain(allNormalizedPolicies(g_Domain_Data, 1, 1), <<"V1">>) :
           /\ columnOf(allNormalizedPolicies(g_Domain_Data, 1, 1), i, NMCOL_PROTOCOL) = <<"S1">>
           /\ columnOf(allNormalizedPolicies(g_Domain_Data, 1, 1), i, NMCOL_DST_PORT) = <<"S1">>
    /\ (Len(lastMessage) = 3 /\ lastMessage[1] = MSG_FLATTEN) =>
           /\ rowsOfDomain(allNormalizedPolicies(g_Domain_Data, 1, 1), <<"V1">>) # {}
                  => rowsOfDomain(g_AllFlattenedPolicies, <<"V1">>) # {}
           /\ \A i \in rowsOfDomain(g_AllFlattenedPolicies, <<"V1">>) :
                  /\ columnOf(g_AllFlattenedPolicies, i, NMCOL_PROTOCOL) = <<"S1">>
                  /\ columnOf(g_AllFlattenedPolicies, i, NMCOL_SRC_ADDR) = <<"h2">>
                  /\ columnOf(g_AllFlattenedPolicies, i, NMCOL_DST_ADDR)
                         = IF lastMessage[2] THEN Host4 \o <<"/", "32">> ELSE <<"g1">>

\* The three domains were parsed and flattened with both toggles: the row of
\* V1 keeps the names h2 and S1, the rows of V2, which defines them, have the
\* address of h2 and the protocol of S1.
C29_Witness ==
    /\ history = <<1, 2, 3>>
    /\ lastMessage = <<MSG_FLATTEN, TRUE, TRUE>>
    /\ \E i \in rowsOfDomain(g_AllFlattenedPolicies, <<"V1">>) :
           columnOf(g_AllFlattenedPolicies, i, NMCOL_SRC_ADDR) = <<"h2">>
    /\ \E i \in rowsOfDomain(g_AllFlattenedPolicies, <<"V2">>) :
           /\ columnOf(g_AllFlattenedPolicies, i, NMCOL_SRC_ADDR) = Other4 \o <<"/", "32">>
           /\ columnOf(g_AllFlattenedPolicies, i, NMCOL_PROTOCOL) = <<"6">>
====
